---------------------------- MODULE Spec2Model ----------------------------
(***************************************************************************)
(* Span Explainer: payload validation, trace indexing, context extraction, *)
(* prompt composition, output validation and the HTTP handlers around      *)
(* them (register / upload-trace / explain-span over the in-memory store). *)
(*                                                                         *)
(* JSON text is modelled as a sequence of lexical tokens; encoding/json is *)
(* modelled by a parser over tokens (syntax) followed by a decoder of the  *)
(* parsed value into the Go struct shape (types).                          *)
(***************************************************************************)
EXTENDS Integers, Sequences, FiniteSets, TLC

VARIABLES
    vdoc,     \* the trace document being written (resources of scopes of spans)
    vform,    \* the form it is sent in ("" while it is being written)
    vraw,     \* ValidateOTLPTraces: the raw message validated
    verr,     \* ValidateOTLPTraces: the error returned ("pending" before the call)
    oin,      \* output validation: the model answer as written (members, form)
    otext,    \* ... the raw model text
    ocase,    \* ... the explain call it answers (trace, span id, model error)
    odone,    \* ... which of the two calls below have returned
    oval,     \* ... what ParseResult(ExtractJSON(text)) returned
    oexp,     \* ... what ExplainTrace returned
    store,    \* server: Store.users (userID -> token, traces) and Store.tokens
    issued,   \* server: the <<userID, upload_id>> answered by successful uploads
    inflight, \* server: the explain request waiting for the model, if any
    resp,     \* server: the last response written
    pctx,     \* prompt: the ExplainContext the prompt is built for
    pq,       \* ... the question
    pout,     \* ... the prompts built for (pctx, pq), one per call of buildPrompt
    iorig,    \* index: the trace as first given
    itrace,   \* ... the trace with its resources, scopes and spans permuted
    iout,     \* ... the indexes built: of iorig, then of itrace
    cdoc,     \* context: the trace document as written
    cform,    \* ... the form it is written in
    cid,      \* ... the target span id
    cout,     \* ... what BuildExplainContext returned, <<>> before the call
    mu,       \* store calls: Store.mu, the writer holding it and the readers
    callers   \* ... the goroutines calling the store: the call and where it is

valVars == <<vdoc, vform, vraw, verr>>
outVars == <<oin, otext, ocase, odone, oval, oexp>>
srvVars == <<store, issued, inflight, resp>>
prmVars == <<pctx, pq, pout>>
idxVars == <<iorig, itrace, iout>>
ctxVars == <<cdoc, cform, cid, cout>>
muVars == <<mu, callers>>
vars == <<valVars, outVars, srvVars, prmVars, idxVars, ctxVars, muVars>>

-----------------------------------------------------------------------------
(* Bounds of the model *)

MaxResources == 2
MaxScopes == 2
MaxSpans == 2
MaxUsers == 2
MaxTraces == 2
MaxTags == 2
MaxPromptCalls == 2
MaxIndexSpans == 3
MaxContextSpans == 4
MaxCallers == 2

-----------------------------------------------------------------------------
(* JSON text as tokens.  c is the token class, x its payload:              *)
(*   "{" "}" "[" "]" ","   structural characters                           *)
(*   key    a member name with its colon,  "name":                         *)
(*   str    a string literal (x its content, "" for the empty string)      *)
(*   num, bool, null   the other literals                                  *)
(*   ws     white space                                                    *)
(*   junk   characters that start no JSON value                            *)
(*   fencejson, fence   the literal markers ```json and ```                *)

Tok(c, x) == [c |-> c, x |-> x]
LBRACE == Tok("{", "")
RBRACE == Tok("}", "")
LBRACK == Tok("[", "")
RBRACK == Tok("]", "")
COMMA == Tok(",", "")
WS == Tok("ws", "")
JUNK == Tok("junk", "")
FENCEJSON == Tok("fencejson", "")
FENCE == Tok("fence", "")

(* JSON values as trees: kind t, string s, members m (a sequence of
   <<name, value>>), elements e. *)
JStr(s) == [t |-> "str", s |-> s, m |-> <<>>, e |-> <<>>]
JNum == [t |-> "num", s |-> "", m |-> <<>>, e |-> <<>>]
JBool == [t |-> "bool", s |-> "", m |-> <<>>, e |-> <<>>]
JNull == [t |-> "null", s |-> "", m |-> <<>>, e |-> <<>>]
JObj(m) == [t |-> "obj", s |-> "", m |-> m, e |-> <<>>]
JArr(e) == [t |-> "arr", s |-> "", m |-> <<>>, e |-> e]

(* F(x), with x evaluated once *)
With(x, F(_)) == CHOOSE y \in {F(z) : z \in {x}} : TRUE

RECURSIVE Concat(_)
Concat(ss) == IF ss = <<>> THEN <<>> ELSE Head(ss) \o Concat(Tail(ss))

RECURSIVE SepBy(_, _)
SepBy(ss, sep) ==
    IF ss = <<>> THEN <<>>
    ELSE IF Len(ss) = 1 THEN Head(ss)
    ELSE Head(ss) \o sep \o SepBy(Tail(ss), sep)

(* The text of a JSON value, compact form (test input writer). *)
RECURSIVE Encode(_)
Encode(v) ==
    CASE v.t = "str" -> <<Tok("str", v.s)>>
      [] v.t = "num" -> <<Tok("num", "")>>
      [] v.t = "bool" -> <<Tok("bool", "")>>
      [] v.t = "null" -> <<Tok("null", "")>>
      [] v.t = "arr" ->
            <<LBRACK>> \o SepBy([i \in 1..Len(v.e) |-> Encode(v.e[i])], <<COMMA>>)
                       \o <<RBRACK>>
      [] v.t = "obj" ->
            <<LBRACE>> \o SepBy([i \in 1..Len(v.m) |->
                                    <<Tok("key", v.m[i][1])>> \o Encode(v.m[i][2])],
                                <<COMMA>>)
                       \o <<RBRACE>>

(* encoding/json scanner: one value starting at position i. Result:
   ok, the value v, and n the position after the value. *)
PFail == [ok |-> FALSE, v |-> JNull, n |-> 0]
POk(v, n) == [ok |-> TRUE, v |-> v, n |-> n]

RECURSIVE SkipWS(_, _)
SkipWS(toks, i) ==
    IF i <= Len(toks) /\ toks[i].c = "ws" THEN SkipWS(toks, i + 1) ELSE i

RECURSIVE ParseValue(_, _), ParseMembers(_, _, _), ParseElements(_, _, _)
ParseValue(toks, i0) ==
    LET i == SkipWS(toks, i0) IN
    IF i > Len(toks) THEN PFail
    ELSE CASE toks[i].c = "str" -> POk(JStr(toks[i].x), i + 1)
           [] toks[i].c = "num" -> POk(JNum, i + 1)
           [] toks[i].c = "bool" -> POk(JBool, i + 1)
           [] toks[i].c = "null" -> POk(JNull, i + 1)
           [] toks[i].c = "{" ->
                LET j == SkipWS(toks, i + 1) IN
                IF j <= Len(toks) /\ toks[j].c = "}" THEN POk(JObj(<<>>), j + 1)
                ELSE ParseMembers(toks, j, <<>>)
           [] toks[i].c = "[" ->
                LET j == SkipWS(toks, i + 1) IN
                IF j <= Len(toks) /\ toks[j].c = "]" THEN POk(JArr(<<>>), j + 1)
                ELSE ParseElements(toks, j, <<>>)
           [] OTHER -> PFail

(* after "{" or ",": a member, then "," or "}" *)
ParseMembers(toks, i0, acc) ==
    LET i == SkipWS(toks, i0) IN
    IF i > Len(toks) \/ toks[i].c # "key" THEN PFail
    ELSE LET r == ParseValue(toks, i + 1) IN
         IF ~r.ok THEN PFail
         ELSE LET j == SkipWS(toks, r.n)
                  acc2 == Append(acc, <<toks[i].x, r.v>>)
              IN IF j > Len(toks) THEN PFail
                 ELSE IF toks[j].c = "}" THEN POk(JObj(acc2), j + 1)
                 ELSE IF toks[j].c = "," THEN ParseMembers(toks, j + 1, acc2)
                 ELSE PFail

(* after "[" or ",": an element, then "," or "]" *)
ParseElements(toks, i0, acc) ==
    LET r == ParseValue(toks, i0) IN
    IF ~r.ok THEN PFail
    ELSE LET j == SkipWS(toks, r.n)
             acc2 == Append(acc, r.v)
         IN IF j > Len(toks) THEN PFail
            ELSE IF toks[j].c = "]" THEN POk(JArr(acc2), j + 1)
            ELSE IF toks[j].c = "," THEN ParseElements(toks, j + 1, acc2)
            ELSE PFail

(* json.Unmarshal's syntax check (checkValid): the whole input is one value,
   white space around it allowed, nothing else after it. *)
Unmarshal(toks) ==
    With(ParseValue(toks, 1), LAMBDA r :
         IF r.ok /\ SkipWS(toks, r.n) > Len(toks) THEN r ELSE PFail)

(* json.Decoder.Decode into a json.RawMessage: reads the first value of the
   stream and leaves what follows it unread; the RawMessage is the text of
   that value. *)
DecodeRaw(toks) ==
    With(ParseValue(toks, 1), LAMBDA r :
         IF r.ok THEN [ok |-> TRUE, raw |-> SubSeq(toks, SkipWS(toks, 1), r.n - 1)]
         ELSE [ok |-> FALSE, raw |-> <<>>])

-----------------------------------------------------------------------------
(* encoding/json decoding of a parsed value into Go types.  For each Go
   type T, TErr(v) says that decoding v records an UnmarshalTypeError
   (decoding goes on after it and Unmarshal returns the error at the end)
   and TVal(v) is the value decoded.  JSON null decoded into a string or a
   struct has no effect and is no error; into a slice or a map it gives nil.
   Object keys that name no field are skipped. *)

EmptyMap == [k \in {} |-> ""]

(* the values of the members named k, in text order *)
Occ(v, k) ==
    LET ms == SelectSeq(v.m, LAMBDA p : p[1] = k)
    IN [i \in 1..Len(ms) |-> ms[i][2]]

LastIdx(seq, P(_)) ==
    LET S == {i \in 1..Len(seq) : P(seq[i])}
    IN IF S = {} THEN 0 ELSE CHOOSE i \in S : \A j \in S : j <= i

(* a string field: every occurrence of the key is stored in turn *)
StringFieldErr(v, k) ==
    \E i \in 1..Len(v.m) : v.m[i][1] = k /\ v.m[i][2].t \notin {"str", "null"}
StringFieldVal(v, k) ==
    LET occ == Occ(v, k)
        last == LastIdx(occ, LAMBDA o : o.t = "str")
    IN IF last = 0 THEN "" ELSE occ[last].s

(* a struct, slice or map field (for a repeated key every occurrence is
   decoded; the last one that is not null is the one kept) *)
FieldErr(v, k, E(_)) ==
    \E i \in 1..Len(v.m) : v.m[i][1] = k /\ E(v.m[i][2])
FieldVal(v, k, V(_), Z) ==
    LET occ == Occ(v, k)
        last == LastIdx(occ, LAMBDA o : o.t # "null")
    IN IF last = 0 THEN Z ELSE V(occ[last])

SliceErr(v, E(_)) ==
    CASE v.t = "arr" -> \E i \in 1..Len(v.e) : E(v.e[i])
      [] v.t = "null" -> FALSE
      [] OTHER -> TRUE
SliceVal(v, V(_)) ==
    IF v.t = "arr" THEN [i \in 1..Len(v.e) |-> V(v.e[i])] ELSE <<>>

MapKeys(v) == {v.m[i][1] : i \in 1..Len(v.m)}

(* map[string]string *)
StringMapErr(v) ==
    CASE v.t = "obj" -> \E i \in 1..Len(v.m) : v.m[i][2].t \notin {"str", "null"}
      [] v.t = "null" -> FALSE
      [] OTHER -> TRUE
StringMapVal(v) ==
    IF v.t = "obj" THEN [k \in MapKeys(v) |-> StringFieldVal(v, k)] ELSE EmptyMap

(* map[string]interface{}: any member value is accepted as it is *)
AnyMapErr(v) == v.t \notin {"obj", "null"}
AnyMapVal(v) ==
    IF v.t = "obj"
    THEN [k \in MapKeys(v) |-> LET occ == Occ(v, k) IN occ[Len(occ)]]
    ELSE EmptyMap

(* a struct: an object decodes field by field, null leaves the zero value *)
StructErr(v, fieldsErr) ==
    CASE v.t = "obj" -> fieldsErr
      [] v.t = "null" -> FALSE
      [] OTHER -> TRUE

(* trace.Event *)
ZeroEvent == [Name |-> ""]
EventErr(v) == StructErr(v, StringFieldErr(v, "name"))
EventVal(v) ==
    IF v.t = "obj" THEN [Name |-> StringFieldVal(v, "name")] ELSE ZeroEvent
EventsErr(v) == SliceErr(v, EventErr)
EventsVal(v) == SliceVal(v, EventVal)

(* trace.Span.Status *)
ZeroStatus == [Code |-> ""]
StatusErr(v) == StructErr(v, StringFieldErr(v, "code"))
StatusVal(v) ==
    IF v.t = "obj" THEN [Code |-> StringFieldVal(v, "code")] ELSE ZeroStatus

(* trace.Span *)
ZeroSpan ==
    [TraceID |-> "", SpanID |-> "", ParentSpanID |-> "", Name |-> "",
     StartTime |-> "", EndTime |-> "", Status |-> ZeroStatus,
     Attributes |-> EmptyMap, Events |-> <<>>]
SpanErr(v) ==
    StructErr(v, \/ StringFieldErr(v, "traceId")
                 \/ StringFieldErr(v, "spanId")
                 \/ StringFieldErr(v, "parentSpanId")
                 \/ StringFieldErr(v, "name")
                 \/ StringFieldErr(v, "startTimeUnixNano")
                 \/ StringFieldErr(v, "endTimeUnixNano")
                 \/ FieldErr(v, "status", StatusErr)
                 \/ FieldErr(v, "attributes", StringMapErr)
                 \/ FieldErr(v, "events", EventsErr))
SpanVal(v) ==
    IF v.t = "obj"
    THEN [TraceID |-> StringFieldVal(v, "traceId"),
          SpanID |-> StringFieldVal(v, "spanId"),
          ParentSpanID |-> StringFieldVal(v, "parentSpanId"),
          Name |-> StringFieldVal(v, "name"),
          StartTime |-> StringFieldVal(v, "startTimeUnixNano"),
          EndTime |-> StringFieldVal(v, "endTimeUnixNano"),
          Status |-> FieldVal(v, "status", StatusVal, ZeroStatus),
          Attributes |-> FieldVal(v, "attributes", StringMapVal, EmptyMap),
          Events |-> FieldVal(v, "events", EventsVal, <<>>)]
    ELSE ZeroSpan
SpansErr(v) == SliceErr(v, SpanErr)
SpansVal(v) == SliceVal(v, SpanVal)

(* trace.ScopeSpan *)
ZeroScopeSpan == [Spans |-> <<>>]
ScopeSpanErr(v) == StructErr(v, FieldErr(v, "spans", SpansErr))
ScopeSpanVal(v) ==
    IF v.t = "obj" THEN [Spans |-> FieldVal(v, "spans", SpansVal, <<>>)]
    ELSE ZeroScopeSpan
ScopeSpansErr(v) == SliceErr(v, ScopeSpanErr)
ScopeSpansVal(v) == SliceVal(v, ScopeSpanVal)

(* trace.Attribute *)
ZeroAttribute == [Key |-> "", Value |-> EmptyMap]
AttributeErr(v) ==
    StructErr(v, StringFieldErr(v, "key") \/ FieldErr(v, "value", AnyMapErr))
AttributeVal(v) ==
    IF v.t = "obj"
    THEN [Key |-> StringFieldVal(v, "key"),
          Value |-> FieldVal(v, "value", AnyMapVal, EmptyMap)]
    ELSE ZeroAttribute
AttributesErr(v) == SliceErr(v, AttributeErr)
AttributesVal(v) == SliceVal(v, AttributeVal)

(* trace.Resource *)
ZeroResource == [Attributes |-> <<>>]
ResourceErr(v) == StructErr(v, FieldErr(v, "attributes", AttributesErr))
ResourceVal(v) ==
    IF v.t = "obj"
    THEN [Attributes |-> FieldVal(v, "attributes", AttributesVal, <<>>)]
    ELSE ZeroResource

(* trace.ResourceSpan *)
ZeroResourceSpan == [Resource |-> ZeroResource, ScopeSpans |-> <<>>]
ResourceSpanErr(v) ==
    StructErr(v, FieldErr(v, "resource", ResourceErr)
                   \/ FieldErr(v, "scopeSpans", ScopeSpansErr))
ResourceSpanVal(v) ==
    IF v.t = "obj"
    THEN [Resource |-> FieldVal(v, "resource", ResourceVal, ZeroResource),
          ScopeSpans |-> FieldVal(v, "scopeSpans", ScopeSpansVal, <<>>)]
    ELSE ZeroResourceSpan
ResourceSpansErr(v) == SliceErr(v, ResourceSpanErr)
ResourceSpansVal(v) == SliceVal(v, ResourceSpanVal)

(* trace.Trace *)
ZeroTrace == [ResourceSpans |-> <<>>]
TraceErr(v) == StructErr(v, FieldErr(v, "resourceSpans", ResourceSpansErr))
TraceVal(v) ==
    IF v.t = "obj"
    THEN [ResourceSpans |-> FieldVal(v, "resourceSpans", ResourceSpansVal, <<>>)]
    ELSE ZeroTrace

(* json.Unmarshal(raw, &t) with t a trace.Trace: err on a syntax error or on
   a type mismatch anywhere in the shape *)
ParseTrace(raw) ==
    With(Unmarshal(raw), LAMBDA r :
         IF ~r.ok THEN [err |-> TRUE, val |-> ZeroTrace]
         ELSE IF TraceErr(r.v) THEN [err |-> TRUE, val |-> ZeroTrace]
         ELSE [err |-> FALSE, val |-> TraceVal(r.v)])

-----------------------------------------------------------------------------
(* Payload validator *)

NoError == <<>>
ErrInvalidJSON == <<"invalid JSON">>
ErrMissingResource == <<"missing resourceSpans">>
ErrMissingSpans == <<"no spans found">>
ErrInvalidSpan == <<"invalid span structure">>

isValidSpan_NoName(s) == s.TraceID # "" /\ s.SpanID # ""

isValidSpan(s) == s.TraceID # "" /\ s.SpanID # "" /\ s.Name # ""

(* the spans in the order the three nested range loops visit them *)
SpansInOrder(t) ==
    Concat([r \in 1..Len(t.ResourceSpans) |->
              Concat([s \in 1..Len(t.ResourceSpans[r].ScopeSpans) |->
                        t.ResourceSpans[r].ScopeSpans[s].Spans])])

(* the loop: returns at the first span that is not valid; spanCount counts
   the spans visited *)
RECURSIVE ValidateLoop(_, _, _)
ValidateLoop(spans, i, spanCount) ==
    IF i > Len(spans)
    THEN IF spanCount = 0 THEN ErrMissingSpans ELSE NoError
    ELSE IF ~isValidSpan(spans[i])
         THEN ErrInvalidSpan \o <<"traceId=", spans[i].TraceID,
                                  "spanId=", spans[i].SpanID>>
         ELSE ValidateLoop(spans, i + 1, spanCount + 1)

ValidateOTLPTraces(raw) ==
    With(ParseTrace(raw), LAMBDA payload :
         IF payload.err THEN ErrInvalidJSON
         ELSE IF Len(payload.val.ResourceSpans) = 0 THEN ErrMissingResource
         ELSE ValidateLoop(SpansInOrder(payload.val), 1, 0))

-----------------------------------------------------------------------------
(* Trace index and context extraction *)

ChildLimit == 2

(* Go maps as functions on their key set *)
MapHas(m, k) == k \in DOMAIN m
MapGet(m, k, zero) == IF k \in DOMAIN m THEN m[k] ELSE zero
MapPut(m, k, x) == [y \in DOMAIN m \cup {k} |-> IF y = k THEN x ELSE m[y]]

(* attr.Value[name].(string) *)
IsStringAt(m, name) == MapHas(m, name) /\ m[name].t = "str"

(* first attribute with key service.name whose value holds a string under
   stringValue, else under value; an attribute that holds neither is passed *)
RECURSIVE getServiceName(_)
getServiceName(attrs) ==
    IF attrs = <<>> THEN ""
    ELSE LET attr == Head(attrs) IN
         IF attr.Key = "service.name" /\ IsStringAt(attr.Value, "stringValue")
         THEN attr.Value["stringValue"].s
         ELSE IF attr.Key = "service.name" /\ IsStringAt(attr.Value, "value")
         THEN attr.Value["value"].s
         ELSE getServiceName(Tail(attrs))

EmptyIndex ==
    [SpansByID |-> EmptyMap, Children |-> EmptyMap, ServiceBySpan |-> EmptyMap]

IndexSpan_KnownParentOnly(idx, sp, service) ==
    [SpansByID |-> MapPut(idx.SpansByID, sp.SpanID, sp),
     ServiceBySpan |-> MapPut(idx.ServiceBySpan, sp.SpanID, service),
     Children |->
        IF sp.ParentSpanID # "" /\ MapHas(idx.SpansByID, sp.ParentSpanID)
        THEN MapPut(idx.Children, sp.ParentSpanID,
                    Append(MapGet(idx.Children, sp.ParentSpanID, <<>>), sp))
        ELSE idx.Children]

IndexSpan_FirstWins(idx, sp, service) ==
    [SpansByID |->
        IF MapHas(idx.SpansByID, sp.SpanID) THEN idx.SpansByID
        ELSE MapPut(idx.SpansByID, sp.SpanID, sp),
     ServiceBySpan |-> MapPut(idx.ServiceBySpan, sp.SpanID, service),
     Children |->
        IF sp.ParentSpanID # ""
        THEN MapPut(idx.Children, sp.ParentSpanID,
                    Append(MapGet(idx.Children, sp.ParentSpanID, <<>>), sp))
        ELSE idx.Children]

(* the body of the innermost loop, for span sp of a resource with the
   service name service *)
IndexSpan(idx, sp, service) ==
    [SpansByID |-> MapPut(idx.SpansByID, sp.SpanID, sp),
     ServiceBySpan |-> MapPut(idx.ServiceBySpan, sp.SpanID, service),
     Children |->
        IF sp.ParentSpanID # ""
        THEN MapPut(idx.Children, sp.ParentSpanID,
                    Append(MapGet(idx.Children, sp.ParentSpanID, <<>>), sp))
        ELSE idx.Children]

RECURSIVE IndexSpans(_, _, _)
IndexSpans(idx, spans, service) ==
    IF spans = <<>> THEN idx
    ELSE IndexSpans(IndexSpan(idx, Head(spans), service), Tail(spans), service)

RECURSIVE IndexScopes(_, _, _)
IndexScopes(idx, scopes, service) ==
    IF scopes = <<>> THEN idx
    ELSE IndexScopes(IndexSpans(idx, Head(scopes).Spans, service),
                     Tail(scopes), service)

RECURSIVE IndexResources(_, _)
IndexResources(idx, rss) ==
    IF rss = <<>> THEN idx
    ELSE IndexResources(
            IndexScopes(idx, Head(rss).ScopeSpans,
                        getServiceName(Head(rss).Resource.Attributes)),
            Tail(rss))

BuildTraceIndex(t) == IndexResources(EmptyIndex, t.ResourceSpans)

findSpan_Any(idx, spanID) ==
    [ok |-> TRUE, sp |-> MapGet(idx.SpansByID, spanID, ZeroSpan)]

findSpan(idx, spanID) ==
    [ok |-> MapHas(idx.SpansByID, spanID),
     sp |-> MapGet(idx.SpansByID, spanID, ZeroSpan)]

findChildren_All(idx, spanID, limit) ==
    MapGet(idx.Children, spanID, <<>>)

findChildren(idx, spanID, limit) ==
    LET children == MapGet(idx.Children, spanID, <<>>) IN
    IF Len(children) > limit THEN SubSeq(children, 1, limit) ELSE children

buildSpanContext(sp, service) ==
    [Service |-> service,
     Operation |-> sp.Name,
     Status |-> sp.Status.Code,
     Tags |-> sp.Attributes,
     Logs |-> [i \in 1..Len(sp.Events) |-> sp.Events[i].Name]]

(* ExplainContext.ParentSpan is a pointer: <<>> for nil, else <<context>> *)
NoContext == [err |-> <<>>, has |-> FALSE, TargetSpan |-> buildSpanContext(ZeroSpan, ""),
              ParentSpan |-> <<>>, ChildSpans |-> <<>>]

ExtractContext_AnyParent(idx, targetSpanID) ==
    LET target == findSpan(idx, targetSpanID)
        parent == findSpan(idx, target.sp.ParentSpanID)
        children == findChildren(idx, target.sp.SpanID, ChildLimit)
    IN IF ~target.ok
       THEN [NoContext EXCEPT !.err = <<"target span not found">>]
       ELSE [err |-> <<>>,
             has |-> TRUE,
             TargetSpan |->
                buildSpanContext(target.sp,
                                 MapGet(idx.ServiceBySpan, target.sp.SpanID, "")),
             ParentSpan |->
                IF target.sp.ParentSpanID # ""
                THEN <<buildSpanContext(parent.sp,
                          MapGet(idx.ServiceBySpan, parent.sp.SpanID, ""))>>
                ELSE <<>>,
             ChildSpans |->
                [i \in 1..Len(children) |->
                    buildSpanContext(children[i],
                        MapGet(idx.ServiceBySpan, children[i].SpanID, ""))]]

ExtractContext(idx, targetSpanID) ==
    LET target == findSpan(idx, targetSpanID)
        parent == findSpan(idx, target.sp.ParentSpanID)
        children == findChildren(idx, target.sp.SpanID, ChildLimit)
    IN IF ~target.ok
       THEN [NoContext EXCEPT !.err = <<"target span not found">>]
       ELSE [err |-> <<>>,
             has |-> TRUE,
             TargetSpan |->
                buildSpanContext(target.sp,
                                 MapGet(idx.ServiceBySpan, target.sp.SpanID, "")),
             ParentSpan |->
                IF target.sp.ParentSpanID # "" /\ parent.ok
                THEN <<buildSpanContext(parent.sp,
                          MapGet(idx.ServiceBySpan, parent.sp.SpanID, ""))>>
                ELSE <<>>,
             ChildSpans |->
                [i \in 1..Len(children) |->
                    buildSpanContext(children[i],
                        MapGet(idx.ServiceBySpan, children[i].SpanID, ""))]]

(* err is the error returned (<<>> for nil); has says a context is returned *)
BuildExplainContext(raw, targetSpanID) ==
    With(ParseTrace(raw), LAMBDA t :
         IF t.err THEN [NoContext EXCEPT !.err = <<"json: cannot unmarshal">>]
         ELSE With(BuildTraceIndex(t.val), LAMBDA idx :
                   ExtractContext(idx, targetSpanID)))

-----------------------------------------------------------------------------
(* Output validation *)

RemoveAll(s, c) == SelectSeq(s, LAMBDA tk : tk.c # c)

RECURSIVE TrimLeft(_)
TrimLeft(s) == IF s # <<>> /\ Head(s).c = "ws" THEN TrimLeft(Tail(s)) ELSE s

RECURSIVE TrimRight(_)
TrimRight(s) ==
    IF s # <<>> /\ s[Len(s)].c = "ws" THEN TrimRight(SubSeq(s, 1, Len(s) - 1))
    ELSE s

TrimSpace(s) == TrimRight(TrimLeft(s))

(* strings.Index and strings.LastIndex for a one-character token, 1-based;
   0 when there is none (Go: -1) *)
Index(s, c) ==
    LET S == {i \in 1..Len(s) : s[i].c = c}
    IN IF S = {} THEN 0 ELSE CHOOSE i \in S : \A j \in S : i <= j
LastIndex(s, c) ==
    LET S == {i \in 1..Len(s) : s[i].c = c}
    IN IF S = {} THEN 0 ELSE CHOOSE i \in S : \A j \in S : j <= i

ExtractJSON_FirstClose(s0) ==
    LET s == TrimSpace(RemoveAll(RemoveAll(s0, "fencejson"), "fence"))
        start == Index(s, "{")
        end == Index(s, "}")
    IN IF start = 0 \/ end = 0 \/ end < start THEN s
       ELSE SubSeq(s, start, end)

ExtractJSON(s0) ==
    LET s == TrimSpace(RemoveAll(RemoveAll(s0, "fencejson"), "fence"))
        start == Index(s, "{")
        end == LastIndex(s, "}")
    IN IF start = 0 \/ end = 0 \/ end < start THEN s
       ELSE SubSeq(s, start, end)

(* llm.ExplainResult *)
ZeroExplainResult == [RootCause |-> "", Impact |-> "", SuggestedAction |-> ""]
ExplainResultErr_Lenient(v) == v.t \notin {"obj", "null"}

ExplainResultErr(v) ==
    StructErr(v, \/ StringFieldErr(v, "root_cause")
                 \/ StringFieldErr(v, "impact")
                 \/ StringFieldErr(v, "suggested_action"))
ExplainResultVal(v) ==
    IF v.t = "obj"
    THEN [RootCause |-> StringFieldVal(v, "root_cause"),
          Impact |-> StringFieldVal(v, "impact"),
          SuggestedAction |-> StringFieldVal(v, "suggested_action")]
    ELSE ZeroExplainResult

(* a (result, error) pair: has says the result pointer is not nil, err is
   the error message, <<>> for a nil error *)
Fail(err) == [has |-> FALSE, result |-> ZeroExplainResult, err |-> err]
Return(result) == [has |-> TRUE, result |-> result, err |-> <<>>]

ParseExplainResult(response) ==
    With(Unmarshal(response), LAMBDA r :
         IF ~r.ok \/ ExplainResultErr(r.v)
         THEN Fail(<<"failed to parse explain result">>)
         ELSE Return(ExplainResultVal(r.v)))

ParseResult_NoImpactCheck(response0) ==
    With(ParseExplainResult(TrimSpace(response0)), LAMBDA parsed :
         IF parsed.err # <<>>
         THEN Fail(<<"response is not valid JSON">> \o parsed.err)
         ELSE IF parsed.result.RootCause = ""
         THEN Fail(<<"root_cause field is missing or empty">>)
         ELSE IF parsed.result.SuggestedAction = ""
         THEN Fail(<<"suggested_action field is missing or empty">>)
         ELSE Return(parsed.result))

ParseResult(response0) ==
    With(ParseExplainResult(TrimSpace(response0)), LAMBDA parsed :
         IF parsed.err # <<>>
         THEN Fail(<<"response is not valid JSON">> \o parsed.err)
         ELSE IF parsed.result.RootCause = ""
         THEN Fail(<<"root_cause field is missing or empty">>)
         ELSE IF parsed.result.Impact = ""
         THEN Fail(<<"impact field is missing or empty">>)
         ELSE IF parsed.result.SuggestedAction = ""
         THEN Fail(<<"suggested_action field is missing or empty">>)
         ELSE Return(parsed.result))

(* PhiLLM.ExplainTrace.  llm is what the model call answers: an error, or
   the text.  calls counts the model calls made. *)
Called(pair, n) ==
    [has |-> pair.has, result |-> pair.result, err |-> pair.err, calls |-> n]

ExplainTrace_Retry(traceData, question, spanID, llm) ==
    With(BuildExplainContext(traceData, spanID), LAMBDA explainCtx :
         IF explainCtx.err # <<>>
         THEN Called(Fail(<<"failed to build explain context">> \o explainCtx.err), 0)
         ELSE IF llm.err
         THEN Called(Fail(<<"model call failed">>), 1)
         ELSE With(ParseResult(ExtractJSON(llm.text)), LAMBDA answer :
                   IF answer.err # <<>>
                   THEN Called(Fail(<<"invalid LLM response format">> \o answer.err), 2)
                   ELSE Called(answer, 1)))

ExplainTrace(traceData, question, spanID, llm) ==
    With(BuildExplainContext(traceData, spanID), LAMBDA explainCtx :
         IF explainCtx.err # <<>>
         THEN Called(Fail(<<"failed to build explain context">> \o explainCtx.err), 0)
         ELSE IF llm.err
         THEN Called(Fail(<<"model call failed">>), 1)
         ELSE With(ParseResult(ExtractJSON(llm.text)), LAMBDA answer :
                   IF answer.err # <<>>
                   THEN Called(Fail(<<"invalid LLM response format">> \o answer.err), 1)
                   ELSE Called(answer, 1)))

-----------------------------------------------------------------------------
(* Prompt composition.  The prompt is a sequence of lines (the text between
   two "\n"); a line is a sequence of pieces written one after the other.
   Strings the code searches (tag keys, tag values, log lines) are spelled
   character by character; any other string is one piece. *)

Chars(s) ==
    CASE s = "error" -> <<"e", "r", "r", "o", "r">>
      [] s = "exception" -> <<"e", "x", "c", "e", "p", "t", "i", "o", "n">>
      [] s = "failure" -> <<"f", "a", "i", "l", "u", "r", "e">>
      [] s = "status" -> <<"s", "t", "a", "t", "u", "s">>
      [] s = "timeout" -> <<"t", "i", "m", "e", "o", "u", "t">>
      [] s = "limit" -> <<"l", "i", "m", "i", "t">>
      [] s = "threshold" -> <<"t", "h", "r", "e", "s", "h", "o", "l", "d">>
      [] s = "size" -> <<"s", "i", "z", "e">>
      [] s = "count" -> <<"c", "o", "u", "n", "t">>
      [] s = "duration" -> <<"d", "u", "r", "a", "t", "i", "o", "n">>
      [] s = "ttl" -> <<"t", "t", "l">>
      [] s = "retry" -> <<"r", "e", "t", "r", "y">>
      [] s = "attempt" -> <<"a", "t", "t", "e", "m", "p", "t">>
      [] s = "failed" -> <<"f", "a", "i", "l", "e", "d">>
      [] s = "MB" -> <<"M", "B">>
      [] s = "GB" -> <<"G", "B">>
      [] s = "KB" -> <<"K", "B">>
      [] s = "ms" -> <<"m", "s">>
      [] s = "seconds" -> <<"s", "e", "c", "o", "n", "d", "s">>
      [] s = "sec" -> <<"s", "e", "c">>
      [] s = "min" -> <<"m", "i", "n">>
      [] s = "hour" -> <<"h", "o", "u", "r">>
      [] s = "%" -> <<"%">>
      [] s = "error.type" -> <<"e", "r", "r", "o", "r", ".", "t", "y", "p", "e">>
      [] s = "Exception" -> <<"E", "x", "c", "e", "p", "t", "i", "o", "n">>
      [] s = "error.count" -> <<"e", "r", "r", "o", "r", ".", "c", "o", "u", "n", "t">>
      [] s = "http.status_code" -> <<"h", "t", "t", "p", ".", "s", "t", "a", "t", "u", "s", "_", "c", "o", "d", "e">>
      [] s = "db.timeout" -> <<"d", "b", ".", "t", "i", "m", "e", "o", "u", "t">>
      [] s = "payload" -> <<"p", "a", "y", "l", "o", "a", "d">>
      [] s = "region" -> <<"r", "e", "g", "i", "o", "n">>
      [] s = "peer" -> <<"p", "e", "e", "r">>
      [] s = "Timeout" -> <<"T", "i", "m", "e", "o", "u", "t">>
      [] s = "NPE" -> <<"N", "P", "E">>
      [] s = "500" -> <<"5", "0", "0">>
      [] s = "slow" -> <<"s", "l", "o", "w">>
      [] s = "12MB" -> <<"1", "2", "M", "B">>
      [] s = "eu" -> <<"e", "u">>
      [] s = "db" -> <<"d", "b">>
      [] s = "timeout after 30s" -> <<"t", "i", "m", "e", "o", "u", "t", " ", "a", "f", "t", "e", "r", " ", "3", "0", "s">>
      [] s = "retrying" -> <<"r", "e", "t", "r", "y", "i", "n", "g">>
      [] s = "connection Failed" -> <<"c", "o", "n", "n", "e", "c", "t", "i", "o", "n", " ", "F", "a", "i", "l", "e", "d">>
      [] OTHER -> <<s>>

Upper == <<"A", "B", "C", "D", "E", "F", "G", "H", "I", "J", "K", "L", "M",
           "N", "O", "P", "Q", "R", "S", "T", "U", "V", "W", "X", "Y", "Z">>
Lower == <<"a", "b", "c", "d", "e", "f", "g", "h", "i", "j", "k", "l", "m",
           "n", "o", "p", "q", "r", "s", "t", "u", "v", "w", "x", "y", "z">>
Digits == {"0", "1", "2", "3", "4", "5", "6", "7", "8", "9"}

(* strings.ToLower *)
ToLower(cs) ==
    [i \in 1..Len(cs) |->
        IF \E j \in 1..Len(Upper) : Upper[j] = cs[i]
        THEN Lower[CHOOSE j \in 1..Len(Upper) : Upper[j] = cs[i]]
        ELSE cs[i]]

(* strings.Contains *)
Contains(cs, sub) ==
    \E i \in 0..(Len(cs) - Len(sub)) : SubSeq(cs, i + 1, i + Len(sub)) = sub

ContainsAny(cs, words) == \E w \in words : Contains(cs, Chars(w))

ShortLen == 50

isNumericValue(s) ==
    /\ \E i \in 1..Len(Chars(s)) : Chars(s)[i] \in Digits
    /\ \/ ContainsAny(Chars(s), {"MB", "GB", "KB", "ms", "seconds", "sec", "min",
                                   "hour", "%"})
       \/ Len(Chars(s)) < ShortLen

TagBucket_NumericFirst(k, v) ==
    IF \/ isNumericValue(v)
       \/ ContainsAny(ToLower(Chars(k)),
                      {"timeout", "limit", "threshold", "size", "count",
                       "duration", "ttl", "retry", "attempt"})
    THEN "numeric"
    ELSE IF \/ ContainsAny(ToLower(Chars(k)), {"error", "exception", "failure", "status"})
            \/ k = "http.status_code"
    THEN "error"
    ELSE "other"

(* the list a tag "k: v" is appended to *)
TagBucket(k, v) ==
    IF \/ ContainsAny(ToLower(Chars(k)), {"error", "exception", "failure", "status"})
       \/ k = "http.status_code"
    THEN "error"
    ELSE IF \/ isNumericValue(v)
            \/ ContainsAny(ToLower(Chars(k)),
                           {"timeout", "limit", "threshold", "size", "count",
                            "duration", "ttl", "retry", "attempt"})
    THEN "numeric"
    ELSE "other"

(* one of errorTags, numericTags, otherTags after the loop
   "for k, v := range span.Tags" has visited the keys in the order keys *)
TagList(span, keys, bucket) ==
    LET mine == SelectSeq(keys, LAMBDA k : TagBucket(k, span.Tags[k]) = bucket)
    IN [i \in 1..Len(mine) |->
          <<"      ">> \o Chars(mine[i]) \o <<": ">> \o Chars(span.Tags[mine[i]])]

TagSection(title, tags) == IF tags = <<>> THEN <<>> ELSE << <<title>> >> \o tags

LogLine(log) ==
    IF ContainsAny(ToLower(Chars(log)), {"error", "exception", "failed", "timeout"})
    THEN <<"    [ERROR] ">> \o Chars(log)
    ELSE <<"    - ">> \o Chars(log)

(* writeSpanContext: the lines written for one span.  keys is the order in
   which the range loop visits the keys of span.Tags; Go leaves the order of
   a map iteration unspecified. *)
writeSpanContext(span, label, keys) ==
    << <<label, " Span:">>,
       <<"  Service: ", span.Service>>,
       <<"  Operation: ", span.Operation>>,
       <<"  Status: ", span.Status>> >>
    \o (IF DOMAIN span.Tags = {} THEN <<>>
        ELSE << <<"  Tags/Attributes:">> >>
             \o TagSection("    [ERROR DETAILS]:", TagList(span, keys, "error"))
             \o TagSection("    [NUMERIC VALUES/LIMITS]:", TagList(span, keys, "numeric"))
             \o TagSection("    [OTHER]:", TagList(span, keys, "other")))
    \o (IF span.Logs = <<>> THEN <<>>
        ELSE << <<"  Logs/Events:">> >>
             \o [i \in 1..Len(span.Logs) |-> LogLine(span.Logs[i])])

(* the fixed text before the question and after the spans *)
Instructions ==
    << <<"You are an expert distributed systems engineer ...">>,
       <<"CRITICAL JSON FORMAT REQUIREMENTS: ...">>,
       <<"=== EXTRACTION REQUIREMENTS === ...">> >>
Closing ==
    << <<"=== ANALYSIS FOCUS === ...">>,
       <<"FINAL REMINDER: Output ONLY the JSON object ...">> >>

ChildLabel(i) == CASE i = 1 -> "Child 1" [] i = 2 -> "Child 2" [] OTHER -> "Child n"

(* buildPrompt.  order gives, for the target, the parent and each child, the
   order in which the tags of the span are visited. *)
buildPrompt(ctx, question, order) ==
    Instructions
    \o (IF question # "" THEN << <<"Question: ", question>>, <<>> >> ELSE <<>>)
    \o << <<"=== TARGET SPAN (Error/Issue) ===">> >>
    \o writeSpanContext(ctx.TargetSpan, "Target", order.target)
    \o << <<>> >>
    \o (IF ctx.ParentSpan # <<>>
        THEN << <<"=== PARENT SPAN (Caller Context) ===">> >>
             \o writeSpanContext(ctx.ParentSpan[1], "Parent", order.parent)
             \o << <<>> >>
        ELSE <<>>)
    \o (IF Len(ctx.ChildSpans) > 0
        THEN << <<"=== CHILD SPANS (Downstream Calls) ===">> >>
             \o SepBy([i \in 1..Len(ctx.ChildSpans) |->
                         writeSpanContext(ctx.ChildSpans[i], ChildLabel(i),
                                          order.children[i])],
                      << <<>> >>)
             \o << <<>> >>
        ELSE <<>>)
    \o Closing

-----------------------------------------------------------------------------
(* The store.  uuid.NewString() gives an id not given before: the n-th
   user id, token or upload id drawn is the n-th of its pool. *)

UserIDs == <<"u1", "u2", "u3", "u4">>
TokenIDs == <<"k1", "k2", "k3", "k4">>
UploadIDs == <<"up1", "up2", "up3", "up4">>

NewStore == [users |-> EmptyMap, tokens |-> EmptyMap]

(* Store.RegisterUser: a new user id and token, an empty trace map *)
RegisterUser(st, userID, token) ==
    [users |-> MapPut(st.users, userID, [Token |-> token, Traces |-> EmptyMap]),
     tokens |-> MapPut(st.tokens, token, userID)]

(* Store.UserFromToken *)
UserFromToken(st, token) ==
    [ok |-> MapHas(st.tokens, token), userID |-> MapGet(st.tokens, token, "")]

(* Store.AddTrace for a user the store knows (GetOrCreateUser finds it):
   user.Traces[trace.ID] = trace *)
AddTrace(st, userID, traceID, raw) ==
    [st EXCEPT !.users[userID].Traces = MapPut(@, traceID, raw)]

(* Store.GetTrace *)
GetTrace_AnyUser(st, userID, traceID) ==
    LET owners == {u \in DOMAIN st.users : MapHas(st.users[u].Traces, traceID)}
    IN IF owners = {} THEN [ok |-> FALSE, raw |-> <<>>]
       ELSE [ok |-> TRUE, raw |-> st.users[CHOOSE u \in owners : TRUE].Traces[traceID]]

GetTrace(st, userID, traceID) ==
    IF ~MapHas(st.users, userID) THEN [ok |-> FALSE, raw |-> <<>>]
    ELSE [ok |-> MapHas(st.users[userID].Traces, traceID),
          raw |-> MapGet(st.users[userID].Traces, traceID, <<>>)]

-----------------------------------------------------------------------------
(* The handlers.  A response: the handler (op), the request it answers,
   the user id Auth put in X-User-ID ("" when Auth refused), the status,
   the error text (http.Error) or the JSON answer (upload_id, answer), and
   what the handler did on the way: stored a trace, looked a trace up,
   called the model. *)

NoAnswer == Fail(<<>>)

Response(op, req, user, status, body) ==
    [op |-> op, req |-> req, user |-> user, status |-> status, body |-> body,
     token |-> "", upload_id |-> "", answer |-> NoAnswer,
     stored |-> FALSE, lookedUp |-> FALSE, calls |-> 0]

(* http.Header for the one key the handlers read: Set replaces what the
   request came with, Get gives "" when the key is not there *)
NoHeader == EmptyMap

SetHeader_KeepFirst(h, k, v) == IF MapHas(h, k) THEN h ELSE MapPut(h, k, v)

SetHeader(h, k, v) == MapPut(h, k, v)

GetHeader(h, k) == MapGet(h, k, "")

(* the Auth middleware: the user id for the Authorization header, whose
   "Bearer " prefix is cut; auth is the header after the cut, "" for a
   request without the header *)
Auth(st, auth) ==
    IF auth = "" THEN [ok |-> FALSE, userID |-> "", body |-> <<"missing auth">>]
    ELSE IF ~UserFromToken(st, auth).ok
    THEN [ok |-> FALSE, userID |-> "", body |-> <<"invalid token">>]
    ELSE [ok |-> TRUE, userID |-> UserFromToken(st, auth).userID, body |-> <<>>]

(* the body of an explain request decoded into {upload_id, span_id, question} *)
ZeroExplainReq == [TraceID |-> "", SpanID |-> "", Question |-> ""]
ExplainReqErr(v) ==
    StructErr(v, \/ StringFieldErr(v, "upload_id")
                 \/ StringFieldErr(v, "span_id")
                 \/ StringFieldErr(v, "question"))
ExplainReqVal(v) ==
    IF v.t = "obj"
    THEN [TraceID |-> StringFieldVal(v, "upload_id"),
          SpanID |-> StringFieldVal(v, "span_id"),
          Question |-> StringFieldVal(v, "question")]
    ELSE ZeroExplainReq

(* json.NewDecoder(r.Body).Decode(&req): the first value of the body *)
DecodeExplainReq(body) ==
    With(ParseValue(body, 1), LAMBDA r :
         IF ~r.ok \/ ExplainReqErr(r.v) THEN [err |-> TRUE, val |-> ZeroExplainReq]
         ELSE [err |-> FALSE, val |-> ExplainReqVal(r.v)])

-----------------------------------------------------------------------------
(* Trace documents, the inputs written as JSON text.  A document is a
   sequence of resources; a resource has a service name and a sequence of
   scopes; a scope is a sequence of spans.  A string member of a span is
   given as the string, or as left out, null, or a number. *)

ABSENT == "#absent"
ISNULL == "#null"
ISNUM == "#num"

(* a span with the members the validator reads *)
MkSpan(tid, sid, nm) ==
    [traceId |-> tid, spanId |-> sid, name |-> nm, parentSpanId |-> ABSENT,
     status |-> ABSENT, attributes |-> <<>>, events |-> <<>>]

(* a valid span of trace t1: id, parent id, status code, tags (a sequence
   of <<key, value>>) and event names *)
FullSpan(sid, parent, code, attrs, evs) ==
    [traceId |-> "t1", spanId |-> sid, name |-> "op-" \o sid,
     parentSpanId |-> parent, status |-> code, attributes |-> attrs,
     events |-> evs]

MkResource(svc, scopes) == [service |-> svc, scopes |-> scopes]

SpanChoices ==
    { MkSpan("t1", "a", "op"),
      MkSpan("t1", "b", ABSENT),
      MkSpan("", "c", "op"),
      MkSpan("t1", ISNULL, ""),
      MkSpan("t1", "d", ISNUM) }

FieldJSON(k, x) ==
    CASE x = ABSENT -> <<>>
      [] x = ISNULL -> << <<k, JNull>> >>
      [] x = ISNUM -> << <<k, JNum>> >>
      [] OTHER -> << <<k, JStr(x)>> >>

SpanJSON(sp) ==
    JObj(FieldJSON("traceId", sp.traceId) \o FieldJSON("spanId", sp.spanId)
           \o FieldJSON("parentSpanId", sp.parentSpanId)
           \o FieldJSON("name", sp.name)
           \o (IF sp.status = ABSENT THEN <<>>
               ELSE << <<"status", JObj(FieldJSON("code", sp.status))>> >>)
           \o (IF sp.attributes = <<>> THEN <<>>
               ELSE << <<"attributes",
                         JObj([i \in 1..Len(sp.attributes) |->
                                 <<sp.attributes[i][1], JStr(sp.attributes[i][2])>>])>> >>)
           \o (IF sp.events = <<>> THEN <<>>
               ELSE << <<"events",
                         JArr([i \in 1..Len(sp.events) |->
                                 JObj(<< <<"name", JStr(sp.events[i])>> >>)])>> >>))

ServiceJSON(svc) ==
    IF svc = ABSENT THEN JArr(<<>>)
    ELSE JArr(<< JObj(<< <<"key", JStr("service.name")>>,
                         <<"value", JObj(<< <<"stringValue", JStr(svc)>> >>)>> >>) >>)

ScopeJSON(sc) ==
    JObj(<< <<"spans", JArr([i \in 1..Len(sc) |-> SpanJSON(sc[i])])>> >>)

ResourceJSON(rs) ==
    JObj(<< <<"resource", JObj(<< <<"attributes", ServiceJSON(rs.service)>> >>)>>,
            <<"scopeSpans",
              JArr([i \in 1..Len(rs.scopes) |-> ScopeJSON(rs.scopes[i])])>> >>)

DocJSON(doc) ==
    JObj(<< <<"resourceSpans", JArr([i \in 1..Len(doc) |-> ResourceJSON(doc[i])])>> >>)

(* the forms a document is sent in *)
TraceForms == {"plain", "spaced", "trailing", "truncated", "inArray"}
EmptyForms == {"empty", "junk", "null", "string", "rsNull", "rsObject", "noRs"}

WriteDoc(form, doc) ==
    CASE form = "plain" -> Encode(DocJSON(doc))
      [] form = "spaced" -> <<WS>> \o Encode(DocJSON(doc)) \o <<WS>>
      [] form = "trailing" -> Encode(DocJSON(doc)) \o <<WS, JUNK>>
      [] form = "truncated" ->
            LET t == Encode(DocJSON(doc)) IN SubSeq(t, 1, Len(t) - 1)
      [] form = "inArray" -> Encode(JArr(<<DocJSON(doc)>>))
      [] form = "empty" -> <<>>
      [] form = "junk" -> <<JUNK>>
      [] form = "null" -> Encode(JNull)
      [] form = "string" -> Encode(JStr("resourceSpans"))
      [] form = "rsNull" -> Encode(JObj(<< <<"resourceSpans", JNull>> >>))
      [] form = "rsObject" -> Encode(JObj(<< <<"resourceSpans", JObj(<<>>)>> >>))
      [] form = "noRs" -> Encode(JObj(<< <<"spans", JArr(<<>>)>> >>))

DocScopes(doc) == Concat([i \in 1..Len(doc) |-> doc[i].scopes])
DocSpans(doc) == Concat(DocScopes(doc))
NScopes(doc) == Len(DocScopes(doc))
NSpans(doc) == Len(DocSpans(doc))

-----------------------------------------------------------------------------
(* Model answers, the inputs of output validation.  An answer gives each of
   root_cause, impact, suggested_action as a string, or as left out, null, a
   number, a bool, an array or an object; it is sent in one of the forms. *)

ISBOOL == "#bool"
ISARR == "#arr"
ISOBJ == "#obj"

MemberKinds == {ABSENT, ISNULL, ISNUM, ISBOOL, ISARR, ISOBJ, ""}

MemberJSON(k, x) ==
    CASE x = ABSENT -> <<>>
      [] x = ISNULL -> << <<k, JNull>> >>
      [] x = ISNUM -> << <<k, JNum>> >>
      [] x = ISBOOL -> << <<k, JBool>> >>
      [] x = ISARR -> << <<k, JArr(<<JStr("step")>>)>> >>
      [] x = ISOBJ -> << <<k, JObj(<< <<"a", JNum>> >>)>> >>
      [] OTHER -> << <<k, JStr(x)>> >>

AnswerJSON(a) ==
    JObj(MemberJSON("root_cause", a.rc) \o MemberJSON("impact", a.im)
           \o MemberJSON("suggested_action", a.sa))

Answers ==
    [rc : MemberKinds \cup {"cause"}, im : MemberKinds \cup {"effect"},
     sa : MemberKinds \cup {"fix"}]

GoodAnswer == [rc |-> "cause", im |-> "effect", sa |-> "fix"]

(* forms in which the object is what reaches the decoder *)
ObjectForms == {"plain", "spaced", "fenced", "prose"}
BrokenForms ==
    {"inArray", "truncated", "reversed", "junk", "empty", "null", "fencedJunk"}

WriteAnswer(form, a) ==
    LET obj == Encode(AnswerJSON(a)) IN
    CASE form = "plain" -> obj
      [] form = "spaced" -> <<WS>> \o obj \o <<WS>>
      [] form = "fenced" -> <<FENCEJSON, WS>> \o obj \o <<WS, FENCE>>
      [] form = "prose" -> <<JUNK, WS>> \o obj \o <<WS, JUNK>>
      [] form = "inArray" -> <<LBRACK>> \o obj \o <<RBRACK>>
      [] form = "truncated" -> SubSeq(obj, 1, Len(obj) - 1)
      [] form = "reversed" -> <<RBRACE, JUNK, LBRACE>>
      [] form = "junk" -> <<JUNK>>
      [] form = "empty" -> <<>>
      [] form = "null" -> Encode(JNull)
      [] form = "fencedJunk" -> <<FENCE, WS, JUNK, WS, FENCE, WS>>

(* the explain calls: a stored trace with spans a and b, or text that is no
   trace; a span id; whether the model call fails *)
SampleDoc ==
    << MkResource("checkout",
          << << FullSpan("a", ABSENT, "ERROR", << <<"error.type", "Timeout">> >>,
                         <<"timeout after 30s">>),
                FullSpan("b", "a", "OK", <<>>, <<>>) >> >>) >>

ExplainCases ==
    { [trace |-> "sample", span |-> "a", llmErr |-> FALSE],
      [trace |-> "sample", span |-> "a", llmErr |-> TRUE],
      [trace |-> "sample", span |-> "zz", llmErr |-> FALSE],
      [trace |-> "junk", span |-> "a", llmErr |-> FALSE] }

OkCase == [trace |-> "sample", span |-> "a", llmErr |-> FALSE]

CaseRaw(c) ==
    IF c.trace = "sample" THEN WriteDoc("plain", SampleDoc) ELSE <<JUNK>>

(* the requests sent to the server *)
DocOf(name) ==
    CASE name = "sample" -> SampleDoc
      [] name = "nospans" -> << MkResource("checkout", << <<>> >>) >>
      [] name = "badspan" ->
            << MkResource("checkout",
                  << << FullSpan("a", ABSENT, "OK", <<>>, <<>>),
                        MkSpan("t1", "b", ABSENT) >> >>) >>
      [] name = "numname" ->
            << MkResource("checkout", << << MkSpan("t1", "a", ISNUM) >> >>) >>
      [] name = "none" -> <<>>

UploadBodies ==
    ([form : {"plain", "trailing", "truncated"}, doc : {"sample"}]
     \cup [form : {"plain", "trailing"}, doc : {"badspan"}]
     \cup [form : {"plain"}, doc : {"nospans", "numname"}]
     \cup [form : {"plain", "inArray", "junk", "empty"}, doc : {"none"}])

Tokens == {TokenIDs[i] : i \in 1..MaxUsers}

(* a request that comes with an X-User-ID header of its own, naming the
   first user *)
ForgedHeaders == { "X-User-ID" :> UserIDs[1] }

(* every body with a token the server may have issued; one body without a
   token and with a token it never issued *)
UploadRequests ==
    [auth : Tokens, header : {NoHeader}, body : UploadBodies]
    \cup [auth : {"", "bogus"}, header : {NoHeader},
          body : {[form |-> "plain", doc |-> "sample"]}]
    \cup [auth : Tokens, header : ForgedHeaders,
          body : {[form |-> "plain", doc |-> "sample"]}]

ExplainBody(form, upload_id, span_id, question) ==
    [form |-> form, upload_id |-> upload_id, span_id |-> span_id,
     question |-> question]

ExplainBodies ==
    { ExplainBody("plain", UploadIDs[i], sp, "why?") :
        i \in 1..MaxTraces, sp \in {"a", "zz"} }
    \cup { ExplainBody("plain", "up1", "a", ""),
           ExplainBody("plain", "up1", "", "why?"),
           ExplainBody("plain", "", "a", "why?"),
           ExplainBody("plain", "", "", ""),
           ExplainBody("plain", ABSENT, "a", "why?"),
           ExplainBody("plain", ISNUM, "a", "why?"),
           ExplainBody("junk", "up1", "a", "why?") }

ExplainRequests ==
    [auth : Tokens, header : {NoHeader}, body : ExplainBodies]
    \cup [auth : {"", "bogus"}, header : {NoHeader} \cup ForgedHeaders,
          body : {ExplainBody("plain", "up1", "a", "why?")}]
    \cup [auth : Tokens, header : ForgedHeaders,
          body : {ExplainBody("plain", UploadIDs[i], "a", "why?") :
                    i \in 1..MaxTraces}]

WriteExplain(r) ==
    IF r.form = "junk" THEN <<JUNK>>
    ELSE Encode(JObj(FieldJSON("upload_id", r.upload_id)
                       \o FieldJSON("span_id", r.span_id)
                       \o FieldJSON("question", r.question)))

(* what the model call answers *)
LlmReplies ==
    { [err |-> TRUE, text |-> <<>>] }
    \cup { [err |-> FALSE, text |-> WriteAnswer(x[1], x[2])] :
             x \in { <<"fenced", GoodAnswer>>, <<"junk", GoodAnswer>>,
                     <<"plain", [GoodAnswer EXCEPT !.im = ""]>> } }

NoCall ==
    [active |-> FALSE, cancelled |-> FALSE, req |-> <<>>, user |-> "",
     raw |-> <<>>, span |-> "", question |-> ""]

ServerIdle ==
    /\ store = NewStore
    /\ issued = {}
    /\ inflight = NoCall
    /\ resp = Response("", <<>>, "", 0, <<>>)

PromptIdle ==
    /\ pctx = [TargetSpan |-> buildSpanContext(ZeroSpan, ""), ParentSpan |-> <<>>,
               ChildSpans |-> <<>>]
    /\ pq = ""
    /\ pout = <<>>

IndexIdle ==
    /\ iorig = ZeroTrace
    /\ itrace = ZeroTrace
    /\ iout = <<>>

(* a goroutine that is in no call of the store *)
NoCaller ==
    [op |-> "", pc |-> "idle", stack |-> <<>>, userID |-> "", traceID |-> "",
     token |-> "", user |-> "", newUser |-> "", ok |-> FALSE, found |-> <<>>]

MuFree == [writer |-> 0, readers |-> {}]

CallersIdle ==
    /\ mu = MuFree
    /\ callers = [c \in 1..MaxCallers |-> NoCaller]

ContextIdle ==
    /\ cdoc = <<>>
    /\ cform = ""
    /\ cid = ""
    /\ cout = <<>>

ValidateIdle ==
    /\ vdoc = <<>>
    /\ vform = ""
    /\ vraw = <<>>
    /\ verr = "pending"

OutputIdle ==
    /\ oin = [form |-> "", a |-> GoodAnswer]
    /\ otext = <<>>
    /\ ocase = OkCase
    /\ odone = {}
    /\ oval = Fail(<<>>)
    /\ oexp = Called(Fail(<<>>), 0)

(* ParseResult(util.ExtractJSON(llmResponse)) *)
ValidateOutput ==
    /\ oin.form # ""
    /\ "validate" \notin odone
    /\ oval' = ParseResult(ExtractJSON(otext))
    /\ odone' = odone \cup {"validate"}
    /\ UNCHANGED <<oin, otext, ocase, oexp, valVars, srvVars, prmVars, idxVars,
                   ctxVars, muVars>>

(* ExplainTrace(ctx, trace, question, spanID) with the model answering otext *)
Explain ==
    /\ oin.form # ""
    /\ "explain" \notin odone
    /\ oexp' = ExplainTrace(CaseRaw(ocase), "why?", ocase.span,
                            [err |-> ocase.llmErr, text |-> otext])
    /\ odone' = odone \cup {"explain"}
    /\ UNCHANGED <<oin, otext, ocase, oval, valVars, srvVars, prmVars, idxVars,
                   ctxVars, muVars>>

InitOutput ==
    /\ ValidateIdle
    /\ ServerIdle
    /\ PromptIdle
    /\ IndexIdle
    /\ ContextIdle /\ CallersIdle
    /\ oin \in [form : ObjectForms \cup BrokenForms, a : Answers]
    /\ oin.form \in BrokenForms => oin.a = GoodAnswer
    /\ otext = WriteAnswer(oin.form, oin.a)
    /\ ocase \in ExplainCases
    /\ ocase # OkCase => oin = [form |-> "plain", a |-> GoodAnswer]
    /\ odone = {}
    /\ oval = Fail(<<>>)
    /\ oexp = Called(Fail(<<>>), 0)

NextOutput == ValidateOutput \/ Explain

SpecOutput == InitOutput /\ [][NextOutput]_vars

-----------------------------------------------------------------------------
(* Writing a document, one resource, scope or span at a time *)

AddResource ==
    /\ verr = "pending"
    /\ Len(vdoc) < MaxResources
    /\ vdoc' = Append(vdoc, MkResource(ABSENT, <<>>))
    /\ UNCHANGED <<vform, vraw, verr, outVars, srvVars, prmVars, idxVars,
                   ctxVars, muVars>>

AddScope ==
    /\ verr = "pending"
    /\ Len(vdoc) > 0
    /\ NScopes(vdoc) < MaxScopes
    /\ vdoc' = [vdoc EXCEPT ![Len(vdoc)].scopes = Append(@, <<>>)]
    /\ UNCHANGED <<vform, vraw, verr, outVars, srvVars, prmVars, idxVars,
                   ctxVars, muVars>>

AddSpan ==
    /\ verr = "pending"
    /\ Len(vdoc) > 0
    /\ Len(vdoc[Len(vdoc)].scopes) > 0
    /\ NSpans(vdoc) < MaxSpans
    /\ \E sp \in SpanChoices :
          vdoc' = [vdoc EXCEPT ![Len(vdoc)].scopes =
                     [@ EXCEPT ![Len(@)] = Append(@, sp)]]
    /\ UNCHANGED <<vform, vraw, verr, outVars, srvVars, prmVars, idxVars,
                   ctxVars, muVars>>

(* the call ValidateOTLPTraces(raw) *)
Validate ==
    /\ verr = "pending"
    /\ \E form \in TraceForms \cup (IF vdoc = <<>> THEN EmptyForms ELSE {}) :
          /\ vform' = form
          /\ vraw' = WriteDoc(form, vdoc)
          /\ verr' = ValidateOTLPTraces(vraw')
    /\ UNCHANGED <<vdoc, outVars, srvVars, prmVars, idxVars, ctxVars, muVars>>

InitValidate == ValidateIdle /\ OutputIdle /\ ServerIdle /\ PromptIdle /\ IndexIdle
      /\ ContextIdle /\ CallersIdle

NextValidate == AddResource \/ AddScope \/ AddSpan \/ Validate

SpecValidate == InitValidate /\ [][NextValidate]_vars

-----------------------------------------------------------------------------
(* C1: ValidateOTLPTraces returns the failure of the first failing check in
   the order InvalidJSON, MissingResourceSpans, InvalidSpan (with the ids of
   the first span in document order that lacks traceId, spanId or name),
   MissingSpans; and no error exactly when none applies.  The expected
   answer is computed from the document as written, not from its text. *)

FieldDecodes(x) == x # ISNUM
FieldString(x) == IF x \in {ABSENT, ISNULL} THEN "" ELSE x

DocDecodes(form, doc) ==
    \/ form \in {"null", "rsNull", "noRs"}
    \/ /\ form \in {"plain", "spaced"}
       /\ \A i \in 1..Len(DocSpans(doc)) :
             LET sp == DocSpans(doc)[i]
             IN FieldDecodes(sp.traceId) /\ FieldDecodes(sp.spanId)
                  /\ FieldDecodes(sp.name)

DocResources(form, doc) == IF form \in {"plain", "spaced"} THEN doc ELSE <<>>

SpanLacksField(sp) ==
    FieldString(sp.traceId) = "" \/ FieldString(sp.spanId) = ""
      \/ FieldString(sp.name) = ""

ExpectedValidation(form, doc) ==
    LET spans == DocSpans(doc)
        bad == {i \in 1..Len(spans) : SpanLacksField(spans[i])}
        first == CHOOSE i \in bad : \A j \in bad : i <= j
    IN IF ~DocDecodes(form, doc) THEN <<"invalid JSON">>
       ELSE IF DocResources(form, doc) = <<>> THEN <<"missing resourceSpans">>
       ELSE IF bad # {}
            THEN <<"invalid span structure",
                   "traceId=", FieldString(spans[first].traceId),
                   "spanId=", FieldString(spans[first].spanId)>>
       ELSE IF spans = <<>> THEN <<"no spans found">>
       ELSE <<>>

C1_ValidationOrder ==
    verr # "pending" => verr = ExpectedValidation(vform, vdoc)

(* reached: an InvalidSpan answer for a document with a valid span first and
   two spans lacking a field in different scopes *)
C1_Witness ==
    /\ verr # "pending"
    /\ Len(verr) = 5
    /\ NScopes(vdoc) >= 2
    /\ Len(DocSpans(vdoc)) >= 2
    /\ Cardinality({i \in 1..Len(DocSpans(vdoc)) : SpanLacksField(DocSpans(vdoc)[i])}) >= 2

-----------------------------------------------------------------------------
(* The server: register, upload-trace and explain-span requests *)

NUsers == Cardinality(DOMAIN store.users)

(* POST /register *)
Register ==
    /\ NUsers < MaxUsers
    /\ LET userID == UserIDs[NUsers + 1]
           token == TokenIDs[NUsers + 1]
       IN /\ store' = RegisterUser(store, userID, token)
          /\ resp' = [Response("register", <<>>, userID, 200, <<>>)
                        EXCEPT !.token = token]
    /\ UNCHANGED <<issued, inflight, valVars, outVars, prmVars, idxVars, ctxVars, muVars>>

(* POST /upload-trace: Auth, then Server.uploadTrace.  The result is the
   response and the store after the request. *)
UploadTrace(auth, header, b) ==
    LET req == [auth |-> auth, header |-> header, body |-> b]
        a == Auth(store, auth)
        userID == GetHeader(SetHeader(header, "X-User-ID", a.userID), "X-User-ID")
        traceID == UploadIDs[Cardinality(issued) + 1]
    IN IF ~a.ok
       THEN [resp |-> Response("upload", req, "", 401, a.body), store |-> store]
       ELSE With(DecodeRaw(WriteDoc(b.form, DocOf(b.doc))), LAMBDA dec :
            IF ~dec.ok
            THEN [resp |-> Response("upload", req, userID, 400, <<"invalid json">>),
                  store |-> store]
            ELSE With(ValidateOTLPTraces(dec.raw), LAMBDA err :
                 IF err # NoError
                 THEN [resp |-> Response("upload", req, userID, 422, err),
                       store |-> store]
                 ELSE [resp |-> [Response("upload", req, userID, 200, <<>>)
                                   EXCEPT !.upload_id = traceID, !.stored = TRUE],
                       store |-> AddTrace(store, userID, traceID, dec.raw)]))

Upload ==
    /\ \E q \in UploadRequests : \E r \in {UploadTrace(q.auth, q.header, q.body)} :
          /\ r.resp.stored => Cardinality(issued) < MaxTraces
          /\ resp' = r.resp
          /\ store' = r.store
          /\ issued' = IF r.resp.stored
                       THEN issued \cup {<<r.resp.user, r.resp.upload_id>>}
                       ELSE issued
    /\ UNCHANGED <<inflight, valVars, outVars, prmVars, idxVars, ctxVars, muVars>>

(* POST /explain-span: Auth, then Server.queryLLM up to the model call.
   The result is either the response written without a model call, or the
   call that is now waiting for the model. *)
QueryLLM(auth, header, r) ==
    LET a == Auth(store, auth)
        req == [auth |-> auth, header |-> header, body |-> r]
        userID == GetHeader(SetHeader(header, "X-User-ID", a.userID), "X-User-ID")
    IN IF ~a.ok
       THEN [call |-> NoCall, resp |-> Response("explain", req, "", 401, a.body)]
       ELSE With(DecodeExplainReq(WriteExplain(r)), LAMBDA d :
            IF d.err
            THEN [call |-> NoCall,
                  resp |-> Response("explain", req, userID, 400,
                                    <<"invalid JSON body">>)]
            ELSE IF d.val.TraceID = "" \/ d.val.SpanID = "" \/ d.val.Question = ""
            THEN [call |-> NoCall,
                  resp |-> Response("explain", req, userID, 400,
                              <<"upload_id, span_id, and question are required">>)]
            ELSE With(GetTrace(store, userID, d.val.TraceID), LAMBDA g :
                 IF ~g.ok
                 THEN [call |-> NoCall,
                       resp |-> [Response("explain", req, userID, 404,
                                          <<"trace not found">>)
                                   EXCEPT !.lookedUp = TRUE]]
                 ELSE With(ExplainTrace(g.raw, d.val.Question, d.val.SpanID,
                                        [err |-> FALSE, text |-> <<>>]), LAMBDA e :
                      IF e.calls = 0
                      THEN [call |-> NoCall,
                            resp |-> [Response("explain", req, userID, 500, e.err)
                                        EXCEPT !.lookedUp = TRUE]]
                      ELSE [call |-> [active |-> TRUE, cancelled |-> FALSE,
                                      req |-> req, user |-> userID, raw |-> g.raw,
                                      span |-> d.val.SpanID,
                                      question |-> d.val.Question],
                            resp |-> resp])))

ExplainStart ==
    /\ ~inflight.active
    /\ \E q \in ExplainRequests : \E r \in {QueryLLM(q.auth, q.header, q.body)} :
          /\ inflight' = r.call
          /\ resp' = r.resp
    /\ UNCHANGED <<store, issued, valVars, outVars, prmVars, idxVars, ctxVars, muVars>>

(* the caller of the waiting request goes away: r.Context() is cancelled.
   ExplainTrace calls the model with context.Background() *)
CancelExplain ==
    /\ inflight.active /\ ~inflight.cancelled
    /\ inflight' = [inflight EXCEPT !.cancelled = TRUE]
    /\ UNCHANGED <<store, issued, resp, valVars, outVars, prmVars, idxVars,
                   ctxVars, muVars>>

(* the model call returns and Server.queryLLM writes the response *)
ExplainFinish ==
    /\ inflight.active
    /\ \E llm \in LlmReplies :
       \E e \in {ExplainTrace(inflight.raw, inflight.question, inflight.span, llm)} :
             resp' = IF e.err # <<>>
                     THEN [Response("explain", inflight.req, inflight.user, 500, e.err)
                             EXCEPT !.lookedUp = TRUE, !.calls = e.calls]
                     ELSE [Response("explain", inflight.req, inflight.user, 200, <<>>)
                             EXCEPT !.lookedUp = TRUE, !.calls = e.calls,
                                    !.answer = [has |-> e.has, result |-> e.result,
                                                err |-> e.err]]
    /\ inflight' = NoCall
    /\ UNCHANGED <<store, issued, valVars, outVars, prmVars, idxVars, ctxVars, muVars>>

InitServer == ValidateIdle /\ OutputIdle /\ ServerIdle /\ PromptIdle /\ IndexIdle
      /\ ContextIdle /\ CallersIdle

NextServer == Register \/ Upload \/ ExplainStart \/ CancelExplain \/ ExplainFinish

-----------------------------------------------------------------------------
(* Building the prompt for one (ExplainContext, question), call after call *)

(* tags that fall in the three lists: three in errorTags (one by its upper
   case key), two in numericTags (one by its key, one by its value), two in
   otherTags *)
TagPool ==
    ("error.type" :> "Timeout") @@ ("Exception" :> "NPE")
      @@ ("http.status_code" :> "500") @@ ("db.timeout" :> "slow")
      @@ ("payload" :> "12MB") @@ ("region" :> "eu") @@ ("peer" :> "db")
      @@ ("error.count" :> "3")

TagMaps ==
    { [k \in K |-> TagPool[k]] :
        K \in {K \in SUBSET DOMAIN TagPool : Cardinality(K) <= MaxTags} }

PromptSpan(op, status, tags, logs) ==
    [Service |-> "checkout", Operation |-> op, Status |-> status, Tags |-> tags,
     Logs |-> logs]

PromptContexts ==
    { [TargetSpan |-> PromptSpan("GET /pay", "ERROR", tags,
                                 <<"timeout after 30s", "retrying">>),
       ParentSpan |-> rest.parent, ChildSpans |-> rest.children] :
        tags \in TagMaps,
        rest \in { [parent |-> <<>>, children |-> <<>>],
                   [parent |-> <<PromptSpan("POST /order", "OK",
                                    [k \in {"region", "peer"} |-> TagPool[k]], <<>>)>>,
                    children |-> <<PromptSpan("db.query", "ERROR",
                                      [k \in {"db.timeout"} |-> TagPool[k]],
                                      <<"connection Failed">>),
                                   PromptSpan("cache.get", "OK", EmptyMap, <<>>)>>] } }

(* the orders in which a range loop may visit the keys of a map *)
Perms(S) ==
    {p \in [1..Cardinality(S) -> S] : \A i, j \in DOMAIN p : p[i] = p[j] => i = j}

Orders(ctx) ==
    { [target |-> t, parent |-> p, children |-> c] :
        t \in Perms(DOMAIN ctx.TargetSpan.Tags),
        p \in (IF ctx.ParentSpan = <<>> THEN {<<>>}
               ELSE Perms(DOMAIN ctx.ParentSpan[1].Tags)),
        c \in {c \in [1..Len(ctx.ChildSpans) ->
                        UNION {Perms(DOMAIN ctx.ChildSpans[i].Tags) :
                                 i \in 1..Len(ctx.ChildSpans)}] :
                 \A i \in 1..Len(ctx.ChildSpans) :
                    c[i] \in Perms(DOMAIN ctx.ChildSpans[i].Tags)} }

(* a call buildPrompt(ctx, question) *)
BuildPrompt ==
    /\ Len(pout) < MaxPromptCalls
    /\ \E order \in Orders(pctx) :
          pout' = Append(pout, buildPrompt(pctx, pq, order))
    /\ UNCHANGED <<pctx, pq, valVars, outVars, srvVars, idxVars, ctxVars, muVars>>

InitPrompt ==
    /\ ValidateIdle /\ OutputIdle /\ ServerIdle /\ IndexIdle /\ ContextIdle /\ CallersIdle
    /\ pctx \in PromptContexts
    /\ pq \in {"", "why?"}
    /\ pout = <<>>

NextPrompt == BuildPrompt

SpecPrompt == InitPrompt /\ [][NextPrompt]_vars

-----------------------------------------------------------------------------
(* Indexing a trace, and the same trace with its resources, scopes or spans
   in another order *)

IndexSpanPool ==
    { [ZeroSpan EXCEPT !.TraceID = "t1", !.SpanID = id, !.ParentSpanID = parent,
                       !.Name = "op"] :
        id \in {"a", "b", "c"}, parent \in {"", "a"} }

ServiceAttributes(svc) ==
    << [Key |-> "service.name", Value |-> ("stringValue" :> JStr(svc))] >>

IndexResource(svc, scopes) ==
    [Resource |-> [Attributes |-> ServiceAttributes(svc)],
     ScopeSpans |-> [i \in 1..Len(scopes) |-> [Spans |-> scopes[i]]]]

IndexLayouts == {"flat", "scopes", "resources"}

(* the spans in one scope; the first span in a scope of its own; the first
   span in a resource of its own *)
LayOut(kind, spans) ==
    CASE kind = "flat" -> << IndexResource("checkout", <<spans>>) >>
      [] kind = "scopes" ->
            << IndexResource("checkout", << <<Head(spans)>>, Tail(spans) >>) >>
      [] kind = "resources" ->
            << IndexResource("checkout", << <<Head(spans)>> >>),
               IndexResource("payments", << Tail(spans) >>) >>

Swap(seq, i) == [seq EXCEPT ![i] = seq[i + 1], ![i + 1] = seq[i]]

(* a call BuildTraceIndex(t): of the trace as given, then of the permuted one *)
BuildIndex ==
    /\ Len(iout) < 2
    /\ Len(iout) = 0 => itrace = iorig
    /\ iout' = Append(iout, BuildTraceIndex(itrace))
    /\ UNCHANGED <<iorig, itrace, valVars, outVars, srvVars, prmVars, ctxVars, muVars>>

SwapResources ==
    /\ Len(iout) = 1
    /\ \E i \in 1..(Len(itrace.ResourceSpans) - 1) :
          itrace' = [itrace EXCEPT !.ResourceSpans = Swap(@, i)]
    /\ UNCHANGED <<iorig, iout, valVars, outVars, srvVars, prmVars, ctxVars, muVars>>

SwapScopes ==
    /\ Len(iout) = 1
    /\ \E r \in 1..Len(itrace.ResourceSpans) :
       \E i \in 1..(Len(itrace.ResourceSpans[r].ScopeSpans) - 1) :
          itrace' = [itrace EXCEPT !.ResourceSpans[r].ScopeSpans = Swap(@, i)]
    /\ UNCHANGED <<iorig, iout, valVars, outVars, srvVars, prmVars, ctxVars, muVars>>

SwapSpans ==
    /\ Len(iout) = 1
    /\ \E r \in 1..Len(itrace.ResourceSpans) :
       \E s \in 1..Len(itrace.ResourceSpans[r].ScopeSpans) :
       \E i \in 1..(Len(itrace.ResourceSpans[r].ScopeSpans[s].Spans) - 1) :
          itrace' = [itrace EXCEPT
                       !.ResourceSpans[r].ScopeSpans[s].Spans = Swap(@, i)]
    /\ UNCHANGED <<iorig, iout, valVars, outVars, srvVars, prmVars, ctxVars, muVars>>

InitIndex ==
    /\ ValidateIdle /\ OutputIdle /\ ServerIdle /\ PromptIdle /\ ContextIdle /\ CallersIdle
    /\ \E n \in 1..MaxIndexSpans, kind \in IndexLayouts :
       \E spans \in [1..n -> IndexSpanPool] :
          iorig = [ResourceSpans |-> LayOut(kind, spans)]
    /\ itrace = iorig
    /\ iout = <<>>

NextIndex == BuildIndex \/ SwapResources \/ SwapScopes \/ SwapSpans

SpecIndex == InitIndex /\ [][NextIndex]_vars

-----------------------------------------------------------------------------
(* Building the context of a span: BuildExplainContext on a trace document
   as it is written, for a target span id *)

ContextSpanPool ==
    { FullSpan("a", ABSENT, "OK", <<>>, <<>>),
      FullSpan("a", "z", "ERROR", << <<"error.type", "Timeout">> >>,
               <<"timeout after 30s">>),
      FullSpan("a", "a", "UNSET", <<>>, <<>>),
      FullSpan("b", "a", "OK", <<>>, <<>>),
      FullSpan("b", ABSENT, "ERROR", <<>>, <<>>),
      FullSpan("c", "a", "OK", <<>>, <<"retry">>),
      FullSpan("d", "a", "OK", << <<"region", "eu">> >>, <<>>) }

ContextTargets == {"a", "b", "zz"}

ContextLayouts == {"flat", "unnamed", "scopes", "namedFirst", "unnamedFirst"}

(* the spans in one scope of a resource with or without a service name; the
   first span in a scope of its own; the first span in a resource of its
   own, where one of the two resources has no service name *)
ContextDoc(kind, spans) ==
    CASE kind = "flat" -> << MkResource("checkout", <<spans>>) >>
      [] kind = "unnamed" -> << MkResource(ABSENT, <<spans>>) >>
      [] kind = "scopes" ->
            << MkResource("checkout", << <<Head(spans)>>, Tail(spans) >>) >>
      [] kind = "namedFirst" ->
            << MkResource("checkout", << <<Head(spans)>> >>),
               MkResource(ABSENT, << Tail(spans) >>) >>
      [] kind = "unnamedFirst" ->
            << MkResource(ABSENT, << <<Head(spans)>> >>),
               MkResource("payments", << Tail(spans) >>) >>

(* the call BuildExplainContext(raw, targetSpanID) *)
BuildContext ==
    /\ cform # ""
    /\ cout = <<>>
    /\ cout' = << BuildExplainContext(WriteDoc(cform, cdoc), cid) >>
    /\ UNCHANGED <<cdoc, cform, cid, valVars, outVars, srvVars, prmVars, idxVars, muVars>>

InitContext ==
    /\ ValidateIdle /\ OutputIdle /\ ServerIdle /\ PromptIdle /\ IndexIdle
    /\ CallersIdle
    /\ \E n \in 1..MaxContextSpans, kind \in ContextLayouts :
       \E spans \in [1..n -> ContextSpanPool] :
          cdoc = ContextDoc(kind, spans)
    /\ cform \in {"plain", "truncated"}
    /\ cform = "truncated" => NSpans(cdoc) = 1
    /\ cid \in ContextTargets
    /\ cout = <<>>

NextContext == BuildContext

SpecContext == InitContext /\ [][NextContext]_vars

-----------------------------------------------------------------------------
(* Goroutines calling the methods of the store.  Store.mu is a sync.RWMutex:
   Lock waits until no goroutine holds it, also when the goroutine that
   waits is the one that holds it; RLock waits while a writer holds it.
   A method runs from its Lock or RLock to its deferred unlock in one step.
   A call made inside a method pushes the place to return to. *)

Goroutines == 1..MaxCallers

(* the arguments: the ids the store may have given, and ones it gave to
   nobody *)
StoreCalls ==
    [op : {"RegisterUser"}, userID : {""}, traceID : {""}, token : {""}]
    \cup [op : {"GetOrCreateUser"}, userID : {UserIDs[1], "ghost"},
          traceID : {""}, token : {""}]
    \cup [op : {"AddTrace", "GetTrace"}, userID : {UserIDs[1], "ghost"},
          traceID : {UploadIDs[1]}, token : {""}]
    \cup [op : {"UserFromToken"}, userID : {""}, traceID : {""},
          token : {TokenIDs[1], "bogus"}]

(* StoredTrace.RawJSON of the trace with the id *)
RawOf(traceID) == << Tok("str", traceID) >>

FirstPc(op) ==
    CASE op = "RegisterUser" -> "reg_lock"
      [] op \in {"GetOrCreateUser", "AddTrace"} -> "goc_lock"
      [] op = "GetTrace" -> "get_rlock"
      [] op = "UserFromToken" -> "uft_rlock"

(* return from a method: to the caller's next statement, or out of the call *)
ReturnFrom(g) ==
    IF g.stack = <<>> THEN [g EXCEPT !.pc = "done"]
    ELSE [g EXCEPT !.pc = Head(g.stack), !.stack = Tail(g.stack)]

InRegisterUser == {c \in Goroutines : callers[c].op = "RegisterUser"
                                        /\ callers[c].pc # "done"}

(* a goroutine calls a method; AddTrace starts with user := GetOrCreateUser *)
CallStore ==
    /\ \E c \in Goroutines, call \in StoreCalls :
          /\ callers[c].pc \in {"idle", "done"}
          /\ call.op = "RegisterUser" =>
                NUsers + Cardinality(InRegisterUser) < MaxUsers
          /\ callers' = [callers EXCEPT ![c] =
                [NoCaller EXCEPT !.op = call.op, !.pc = FirstPc(call.op),
                                 !.stack = IF call.op = "AddTrace"
                                           THEN <<"add_lock">> ELSE <<>>,
                                 !.userID = call.userID,
                                 !.traceID = call.traceID,
                                 !.token = call.token]]
    /\ UNCHANGED <<mu, srvVars, valVars, outVars, prmVars, idxVars, ctxVars>>

(* s.mu.Lock() *)
Lock ==
    /\ \E c \in Goroutines :
          /\ callers[c].pc \in {"reg_lock", "goc_lock", "add_lock"}
          /\ mu = MuFree
          /\ mu' = [mu EXCEPT !.writer = c]
          /\ callers' = [callers EXCEPT ![c].pc =
                CASE @ = "reg_lock" -> "reg_body"
                  [] @ = "goc_lock" -> "goc_body"
                  [] @ = "add_lock" -> "add_body"]
    /\ UNCHANGED <<srvVars, valVars, outVars, prmVars, idxVars, ctxVars>>

(* s.mu.RLock() *)
RLock ==
    /\ \E c \in Goroutines :
          /\ callers[c].pc \in {"get_rlock", "uft_rlock"}
          /\ mu.writer = 0
          /\ mu' = [mu EXCEPT !.readers = @ \cup {c}]
          /\ callers' = [callers EXCEPT ![c].pc =
                IF @ = "get_rlock" THEN "get_body" ELSE "uft_body"]
    /\ UNCHANGED <<srvVars, valVars, outVars, prmVars, idxVars, ctxVars>>

(* Store.RegisterUser after its Lock *)
RegisterUserBody ==
    /\ \E c \in Goroutines :
          /\ callers[c].pc = "reg_body"
          /\ NUsers < Len(UserIDs)
          /\ store' = RegisterUser(store, UserIDs[NUsers + 1], TokenIDs[NUsers + 1])
          /\ mu' = MuFree
          /\ callers' = [callers EXCEPT ![c] =
                ReturnFrom([@ EXCEPT !.newUser = UserIDs[NUsers + 1]])]
    /\ UNCHANGED <<issued, inflight, resp, valVars, outVars, prmVars, idxVars,
                   ctxVars>>

(* Store.GetOrCreateUser after its Lock: the user is there; or it is not and
   RegisterUser is called with the lock held; or RegisterUser has returned *)
GetOrCreateUserBody ==
    /\ \E c \in Goroutines : \E g \in {callers[c]} :
          \/ /\ g.pc = "goc_body"
             /\ MapHas(store.users, g.userID)
             /\ mu' = MuFree
             /\ callers' = [callers EXCEPT ![c] =
                   ReturnFrom([g EXCEPT !.user = g.userID])]
             /\ store' = store
          \/ /\ g.pc = "goc_body"
             /\ ~MapHas(store.users, g.userID)
             /\ callers' = [callers EXCEPT ![c] =
                   [g EXCEPT !.pc = "reg_lock", !.stack = <<"goc_store">> \o @]]
             /\ UNCHANGED <<mu, store>>
          \/ /\ g.pc = "goc_store"
             /\ store' = [store EXCEPT !.users[g.newUser].Traces = EmptyMap]
             /\ mu' = MuFree
             /\ callers' = [callers EXCEPT ![c] =
                   ReturnFrom([g EXCEPT !.user = g.newUser])]
    /\ UNCHANGED <<issued, inflight, resp, valVars, outVars, prmVars, idxVars,
                   ctxVars>>

(* Store.AddTrace after its Lock: user.Traces[trace.ID] = trace *)
AddTraceBody ==
    /\ \E c \in Goroutines : \E g \in {callers[c]} :
          /\ g.pc = "add_body"
          /\ store' = AddTrace(store, g.user, g.traceID, RawOf(g.traceID))
          /\ mu' = MuFree
          /\ callers' = [callers EXCEPT ![c] = ReturnFrom(g)]
    /\ UNCHANGED <<issued, inflight, resp, valVars, outVars, prmVars, idxVars,
                   ctxVars>>

(* Store.GetTrace after its RLock *)
GetTraceBody ==
    /\ \E c \in Goroutines : \E g \in {callers[c]} :
       \E r \in {GetTrace(store, g.userID, g.traceID)} :
          /\ g.pc = "get_body"
          /\ mu' = [mu EXCEPT !.readers = @ \ {c}]
          /\ callers' = [callers EXCEPT ![c] =
                ReturnFrom([g EXCEPT !.ok = r.ok, !.found = r.raw])]
    /\ UNCHANGED <<srvVars, valVars, outVars, prmVars, idxVars, ctxVars>>

(* Store.UserFromToken after its RLock *)
UserFromTokenBody ==
    /\ \E c \in Goroutines : \E g \in {callers[c]} :
       \E r \in {UserFromToken(store, g.token)} :
          /\ g.pc = "uft_body"
          /\ mu' = [mu EXCEPT !.readers = @ \ {c}]
          /\ callers' = [callers EXCEPT ![c] =
                ReturnFrom([g EXCEPT !.ok = r.ok, !.user = r.userID])]
    /\ UNCHANGED <<srvVars, valVars, outVars, prmVars, idxVars, ctxVars>>

InitStore ==
    /\ ValidateIdle /\ OutputIdle /\ ServerIdle /\ PromptIdle /\ IndexIdle
    /\ ContextIdle /\ CallersIdle

NextStore ==
    \/ CallStore \/ Lock \/ RLock \/ RegisterUserBody \/ GetOrCreateUserBody
    \/ AddTraceBody \/ GetTraceBody \/ UserFromTokenBody

SpecStore == InitStore /\ [][NextStore]_vars

-----------------------------------------------------------------------------
(* Claims about the handlers, stated on the last response written and on
   the request it answers, as the request was written. *)

(* the body as written is one JSON value and nothing else *)
BodyIsJSON(b) == b.form \in {"plain", "spaced", "inArray"}

(* the validator's answer for the whole body *)
ValidatorVerdict(b) == ValidateOTLPTraces(WriteDoc(b.form, DocOf(b.doc)))

UploadAnswered == resp.op = "upload" /\ resp.user # ""

(* C2: an authenticated upload of a body that is not syntactically JSON is
   answered 400; of a syntactically valid body the validator rejects, 422;
   an upload_id is returned only for a body the validator accepts. *)
C2_UploadClassification ==
    UploadAnswered =>
        /\ ~BodyIsJSON(resp.req.body) => resp.status = 400
        /\ (BodyIsJSON(resp.req.body) /\ ValidatorVerdict(resp.req.body) # NoError)
              => resp.status = 422
        /\ resp.upload_id # "" => ValidatorVerdict(resp.req.body) = NoError

ExplainAnswered == resp.op = "explain" /\ resp.user # ""

(* the three members of the explain request are written as non-empty strings *)
ExplainComplete(r) ==
    /\ r.form = "plain"
    /\ r.upload_id \notin {"", ABSENT, ISNULL, ISNUM}
    /\ r.span_id \notin {"", ABSENT, ISNULL, ISNUM}
    /\ r.question \notin {"", ABSENT, ISNULL, ISNUM}

(* some member of the explain request is the empty string or left out *)
ExplainHasEmpty(r) ==
    /\ r.form = "plain"
    /\ r.upload_id # ISNUM
    /\ r.upload_id \in {"", ABSENT} \/ r.span_id \in {"", ABSENT}
         \/ r.question \in {"", ABSENT}

(* the span ids of the sample trace, the one trace the store accepts *)
SampleSpanIDs == {DocSpans(SampleDoc)[i].spanId : i \in 1..Len(DocSpans(SampleDoc))}

SpanNotFoundCase ==
    /\ ExplainAnswered
    /\ ExplainComplete(resp.req.body)
    /\ <<resp.user, resp.req.body.upload_id>> \in issued
    /\ resp.req.body.span_id \notin SampleSpanIDs

ModelFailureCase ==
    /\ ExplainAnswered
    /\ resp.calls > 0
    /\ resp.status # 200

(* C3: an explain request for a stored trace of the caller and a span id the
   trace does not hold is answered "not found", in a classification that is
   neither the one of an unknown upload_id nor the one of model-call and
   output-validation failures (which is 500). *)
C3_SpanNotFoundDistinct ==
    SpanNotFoundCase =>
        /\ resp.status = 404
        /\ resp.body # <<"trace not found">>
        /\ resp.status # 500

(* C4: an explain request with an empty upload_id, span_id or question is
   answered 400 with no trace lookup and no model call.  With all three
   non-empty the answer is 404 "trace not found" exactly when the upload_id
   was never returned to this user by a successful upload. *)
TraceNotFound == resp.status = 404 /\ resp.body = <<"trace not found">>

C4_ExplainLookup ==
    ExplainAnswered =>
        /\ ExplainHasEmpty(resp.req.body)
              => resp.status = 400 /\ ~resp.lookedUp /\ resp.calls = 0
        /\ ExplainComplete(resp.req.body)
              => (TraceNotFound
                    <=> <<resp.user, resp.req.body.upload_id>> \notin issued)

(* reached: with two traces issued, the second user asks for the upload_id
   returned to the first user and is answered "trace not found" *)
C4_Witness ==
    /\ ExplainAnswered
    /\ ExplainComplete(resp.req.body)
    /\ Cardinality(issued) = 2
    /\ resp.user = "u2"
    /\ <<"u1", resp.req.body.upload_id>> \in issued
    /\ <<"u2", resp.req.body.upload_id>> \notin issued
    /\ TraceNotFound

-----------------------------------------------------------------------------
(* Claims about prompt composition and indexing *)

(* C13: once the caller of an explain request has cancelled while the
   model call is pending, the call is aborted: the request does not end
   with the ExplainResult of that model call, it ends with a failure. *)
C13_CancelAborts ==
    [][(inflight.active /\ inflight.cancelled) =>
          (~resp'.answer.has /\ resp'.status # 200)]_vars

(* the model replies that fail output validation, and what queryLLM writes
   for them *)
ValidationFailures ==
    {llm \in LlmReplies :
        ~llm.err /\ ParseResult(ExtractJSON(llm.text)).err # <<>>}

OutputFailureBodies ==
    {ExplainTrace(WriteDoc("plain", SampleDoc), "why?", "a", llm).err :
        llm \in ValidationFailures}

OutputFailure(r) ==
    /\ r.op = "explain"
    /\ r.calls = 1
    /\ r.status # 200
    /\ r.body \in OutputFailureBodies

(* C14: every failure of output validation is answered with one and the
   same response, whatever the failure kind and the model's text, and the
   response carries no answer. *)
C14_GenericFailure ==
    OutputFailure(resp) =>
        /\ \A b \in OutputFailureBodies : resp.body = b
        /\ ~resp.answer.has

(* the traces the store holds, as raw text *)
StoredTraces ==
    UNION {{store.users[u].Traces[id] : id \in DOMAIN store.users[u].Traces} :
              u \in DOMAIN store.users}

(* what the validator accepts: text that decodes to a trace with at least
   one span, every span with a traceId, a spanId and a name *)
AcceptedTrace(raw) ==
    \E t \in {ParseTrace(raw)} :
       /\ ~t.err
       /\ Len(SpansInOrder(t.val)) >= 1
       /\ \A i \in 1..Len(SpansInOrder(t.val)) :
             \E sp \in {SpansInOrder(t.val)[i]} :
                sp.TraceID # "" /\ sp.SpanID # "" /\ sp.Name # ""

StoreHoldsAccepted == \A raw \in StoredTraces : AcceptedTrace(raw)

(* C16: after any sequence of register, upload and explain requests every
   trace in the store is one the validator accepts; an upload answered 400
   or 422 leaves the store as it was. *)
C16_StoreHoldsValid ==
    /\ []StoreHoldsAccepted
    /\ [][(resp'.op = "upload" /\ resp'.status \in {400, 422})
             => store' = store]_vars

(* reached: a store holding a trace, after an upload answered 422 *)
C16_Witness ==
    /\ StoredTraces # {}
    /\ resp.op = "upload"
    /\ resp.status = 422

(* the user a token was issued to by register: the n-th register call
   issues the n-th user id with the n-th token; "" for a token never issued *)
IssuedTo(token) ==
    IF \E i \in 1..NUsers : TokenIDs[i] = token
    THEN UserIDs[CHOOSE i \in 1..NUsers : TokenIDs[i] = token]
    ELSE ""

HandlerRan(r) == r.op \in {"upload", "explain"} /\ r.status # 401

(* C23: a protected handler runs only for a request whose token register
   issued, and with the user id the token was issued to, whatever X-User-ID
   header the request came with; every stored trace is held under the user
   whose token uploaded it; an explain request for an upload_id that was not
   answered to an upload with the same user's token is answered "trace not
   found" and reaches no model call; a pending model call reads the trace
   of the user whose token sent the request. *)
C23_TraceIsolation ==
    /\ HandlerRan(resp) =>
          IssuedTo(resp.req.auth) # "" /\ resp.user = IssuedTo(resp.req.auth)
    /\ \A u \in DOMAIN store.users : \A id \in DOMAIN store.users[u].Traces :
          <<u, id>> \in issued
    /\ (resp.op = "explain" /\ HandlerRan(resp) /\ ExplainComplete(resp.req.body)
          /\ <<IssuedTo(resp.req.auth), resp.req.body.upload_id>> \notin issued) =>
             /\ resp.status = 404
             /\ resp.body = <<"trace not found">>
             /\ resp.calls = 0
             /\ ~resp.answer.has
    /\ inflight.active =>
          \E u \in {IssuedTo(inflight.req.auth)} :
             /\ u # "" /\ inflight.user = u
             /\ <<u, inflight.req.body.upload_id>> \in issued
             /\ inflight.raw = store.users[u].Traces[inflight.req.body.upload_id]

(* reached: the second user asks for the first user's trace with its own
   token and an X-User-ID header naming the first user, and is answered
   "trace not found" *)
C23_Witness ==
    /\ resp.op = "explain"
    /\ resp.req.auth = TokenIDs[2]
    /\ GetHeader(resp.req.header, "X-User-ID") = UserIDs[1]
    /\ <<UserIDs[1], resp.req.body.upload_id>> \in issued
    /\ resp.user = UserIDs[2]
    /\ resp.status = 404

(* C8: buildPrompt is deterministic: the prompts built by two calls for the
   same (ExplainContext, question) are the same text, also when a span has
   two or more tags in the same list. *)
C8_PromptDeterministic ==
    \A i, j \in 1..Len(pout) : pout[i] = pout[j]

(* C9 as stated: permuting resourceSpans, scopeSpans or spans leaves the
   index the same: the same spanId->Span map, the same parent->children
   lists, the same spanId->service map. *)
C9_OrderIndependent ==
    Len(iout) = 2 => iout[1] = iout[2]

(* C9 amended: permuting resourceSpans, scopeSpans or spans leaves the key
   sets of the three maps the same and gives every parent the same children,
   in a list whose order follows the new document order; when the span ids
   of the trace are pairwise distinct, the spanId->Span map and the
   spanId->service map are the same. *)
Count(seq, x) == Cardinality({i \in 1..Len(seq) : seq[i] = x})
SameMembers(s1, s2) ==
    /\ Len(s1) = Len(s2)
    /\ \A i \in 1..Len(s1) : Count(s1, s1[i]) = Count(s2, s1[i])
DistinctSpanIDs(t) ==
    \A i, j \in 1..Len(SpansInOrder(t)) :
        SpansInOrder(t)[i].SpanID = SpansInOrder(t)[j].SpanID => i = j
C9_SameContent ==
    Len(iout) = 2 =>
        /\ DOMAIN iout[1].SpansByID = DOMAIN iout[2].SpansByID
        /\ DOMAIN iout[1].ServiceBySpan = DOMAIN iout[2].ServiceBySpan
        /\ DOMAIN iout[1].Children = DOMAIN iout[2].Children
        /\ \A p \in DOMAIN iout[1].Children :
              SameMembers(iout[1].Children[p], iout[2].Children[p])
        /\ DistinctSpanIDs(iorig) =>
              /\ iout[1].SpansByID = iout[2].SpansByID
              /\ iout[1].ServiceBySpan = iout[2].ServiceBySpan

(* reached: a trace with distinct span ids where two children come before
   their parent after the permutation, and the children list has changed
   its order *)
C9_Witness ==
    /\ Len(iout) = 2
    /\ DistinctSpanIDs(iorig)
    /\ iout[1].Children # iout[2].Children
    /\ Len(MapGet(iout[2].Children, "a", <<>>)) = 2
    /\ Len(SpansInOrder(itrace)) = 3
    /\ SpansInOrder(itrace)[3].SpanID = "a"

(* the spans of a trace in document order, each with the service name of
   the resource it is listed under *)
SpansWithService(t) ==
    Concat([r \in 1..Len(t.ResourceSpans) |->
       Concat([s \in 1..Len(t.ResourceSpans[r].ScopeSpans) |->
          [i \in 1..Len(t.ResourceSpans[r].ScopeSpans[s].Spans) |->
              [sp |-> t.ResourceSpans[r].ScopeSpans[s].Spans[i],
               service |-> getServiceName(t.ResourceSpans[r].Resource.Attributes)]]])])

(* the index C19 describes: for each span id the last span listed with it
   and the service of that span's resource; for each non-empty parent id
   the spans listed with it, in document order *)
IsReferenceIndex(idx, t) ==
    \E L \in {SpansWithService(t)} :
       /\ DOMAIN idx.SpansByID = {L[i].sp.SpanID : i \in 1..Len(L)}
       /\ DOMAIN idx.ServiceBySpan = {L[i].sp.SpanID : i \in 1..Len(L)}
       /\ \A i \in 1..Len(L) :
             (\A j \in (i + 1)..Len(L) : L[j].sp.SpanID # L[i].sp.SpanID) =>
                /\ idx.SpansByID[L[i].sp.SpanID] = L[i].sp
                /\ idx.ServiceBySpan[L[i].sp.SpanID] = L[i].service
       /\ DOMAIN idx.Children = {L[i].sp.ParentSpanID : i \in 1..Len(L)} \ {""}
       /\ \A p \in DOMAIN idx.Children :
             \E kids \in {SelectSeq(L, LAMBDA l : l.sp.ParentSpanID = p)} :
                idx.Children[p] = [i \in 1..Len(kids) |-> kids[i].sp]

(* C19: BuildTraceIndex gives the reference index: last write wins in the
   spanId->Span and spanId->service maps; the children of p are all spans
   with parentSpanId p, in document order, wherever a span p is listed, if
   at all. *)
C19_IndexReference ==
    /\ Len(iout) >= 1 => IsReferenceIndex(iout[1], iorig)
    /\ Len(iout) = 2 => IsReferenceIndex(iout[2], itrace)

(* reached: an index of three spans in two resources, where the id a is
   listed twice with different spans and services, and a has two children
   listed before the last span a *)
C19_Witness ==
    /\ Len(iout) >= 1
    /\ Len(iorig.ResourceSpans) = 2
    /\ \E L \in {SpansWithService(iorig)} :
          /\ Len(L) = 3
          /\ L[1].sp.SpanID = "a" /\ L[3].sp.SpanID = "a"
          /\ L[1] # L[3]
          /\ L[1].service # L[3].service
          /\ iout[1].SpansByID["a"] = L[3].sp
          /\ iout[1].ServiceBySpan["a"] = L[3].service
          /\ iout[1].Children["a"] = <<L[1].sp, L[2].sp>>

(* the lines of a prompt from the line after the header to the next empty
   line: the lines written for one span *)
SpanLines(prompt, header) ==
    LET h == CHOOSE i \in 1..Len(prompt) : prompt[i] = <<header>>
        e == CHOOSE i \in (h + 1)..Len(prompt) :
                /\ prompt[i] = <<>>
                /\ \A j \in (h + 1)..(i - 1) : prompt[j] # <<>>
    IN SubSeq(prompt, h + 1, e - 1)

BucketTitles ==
    << <<"    [ERROR DETAILS]:">>, <<"    [NUMERIC VALUES/LIMITS]:">>,
       <<"    [OTHER]:">> >>

(* the line of a tag *)
TagLine(k, v) == <<"      ">> \o Chars(k) \o <<": ">> \o Chars(v)

IsTagLine(line) == line # <<>> /\ line[1] = "      "

(* the tags of the pool whose key holds error, exception, failure or status
   in any case, or is http.status_code *)
ErrorRuleKeys == {"error.type", "Exception", "http.status_code", "error.count"}

(* the title a line stands under: the last title before it, 0 for none *)
TitleOver(lines, j) ==
    LET T == {i \in 1..(j - 1) : \E b \in 1..3 : lines[i] = BucketTitles[b]}
    IN IF T = {} THEN 0
       ELSE CHOOSE b \in 1..3 :
               lines[CHOOSE i \in T : \A i2 \in T : i2 <= i] = BucketTitles[b]

(* the lines written for a span render its tags once each, under titles in
   the order error, numeric, other, the tags of the error rule under the
   first *)
TagsInBuckets(lines, tags) ==
    /\ \A k \in DOMAIN tags : Count(lines, TagLine(k, tags[k])) = 1
    /\ Cardinality({j \in 1..Len(lines) : IsTagLine(lines[j])})
          = Cardinality(DOMAIN tags)
    /\ \A b \in 1..3 : Count(lines, BucketTitles[b]) <= 1
    /\ \A i, j \in 1..Len(lines) : \A b, c \in 1..3 :
          (lines[i] = BucketTitles[b] /\ lines[j] = BucketTitles[c] /\ i < j)
             => b < c
    /\ \A j \in 1..Len(lines) :
          IsTagLine(lines[j]) =>
             /\ TitleOver(lines, j) # 0
             /\ \A k \in DOMAIN tags \cap ErrorRuleKeys :
                   lines[j] = TagLine(k, tags[k]) => TitleOver(lines, j) = 1

(* C21: writeSpanContext renders every tag of a span exactly once, in one
   of the three lists, and writes the lists in the order error, numeric,
   other; a tag whose key matches the error rule is in the error list even
   when its key or value matches the numeric rule. *)
C21_TagBuckets ==
    \A n \in 1..Len(pout) :
       /\ TagsInBuckets(SpanLines(pout[n], "=== TARGET SPAN (Error/Issue) ==="),
                        pctx.TargetSpan.Tags)
       /\ pctx.ParentSpan # <<>> =>
             TagsInBuckets(SpanLines(pout[n], "=== PARENT SPAN (Caller Context) ==="),
                           pctx.ParentSpan[1].Tags)

(* reached: a prompt for a target with the tags error.count: 3, whose key
   and value match the numeric rule too, and payload: 12MB: the first under
   the error title, the second under the numeric title *)
C21_Witness ==
    /\ Len(pout) >= 1
    /\ DOMAIN pctx.TargetSpan.Tags = {"error.count", "payload"}
    /\ \E lines \in {SpanLines(pout[1], "=== TARGET SPAN (Error/Issue) ===")} :
       \E i \in 1..(Len(lines) - 3) :
          /\ lines[i] = BucketTitles[1]
          /\ lines[i + 1] = TagLine("error.count", "3")
          /\ lines[i + 2] = BucketTitles[2]
          /\ lines[i + 3] = TagLine("payload", "12MB")

(* Claims about calls of the store *)

WaitsForLock(c) == callers[c].pc \in {"reg_lock", "goc_lock", "add_lock"}

(* c waits for the mutex and the goroutine that holds it waits for it too:
   the mutex is never released *)
Deadlocked(c) ==
    /\ WaitsForLock(c) \/ callers[c].pc \in {"get_rlock", "uft_rlock"}
    /\ mu.writer # 0
    /\ WaitsForLock(mu.writer)

(* C22: no call of the store is left waiting for the mutex forever, for a
   registered user id or any other; and once AddTrace(userID, trace) has
   returned, GetTrace(userID, trace.ID) yields the trace. *)
C22_AddTraceReturns ==
    \A c \in Goroutines :
       /\ ~Deadlocked(c)
       /\ (callers[c].op = "AddTrace" /\ callers[c].pc = "done") =>
             GetTrace(store, callers[c].userID, callers[c].traceID)
                = [ok |-> TRUE, raw |-> RawOf(callers[c].traceID)]

-----------------------------------------------------------------------------
(* Claims about the context of a span.  They are stated on the document as
   it was written (cdoc): the spans listed in it, in document order, each
   with the service name written for its resource. *)

Listed(doc) ==
    Concat([r \in 1..Len(doc) |->
       Concat([s \in 1..Len(doc[r].scopes) |->
          [i \in 1..Len(doc[r].scopes[s]) |->
              [sp |-> doc[r].scopes[s][i], service |-> doc[r].service]]])])

ListedIDs(doc) == {Listed(doc)[i].sp.spanId : i \in 1..Len(Listed(doc))}

(* the last span listed with the id *)
LastListed(doc, id) ==
    Listed(doc)[CHOOSE i \in 1..Len(Listed(doc)) :
                  /\ Listed(doc)[i].sp.spanId = id
                  /\ \A j \in (i + 1)..Len(Listed(doc)) :
                        Listed(doc)[j].sp.spanId # id]

(* the spans listed with the parent id, in document order *)
ListedChildren(doc, p) ==
    SelectSeq(Listed(doc), LAMBDA l : FieldString(l.sp.parentSpanId) = p)

WrittenTags(sp) ==
    [k \in {sp.attributes[i][1] : i \in 1..Len(sp.attributes)} |->
        (CHOOSE pair \in {sp.attributes[i] : i \in 1..Len(sp.attributes)} :
            pair[1] = k)[2]]

(* the SpanContext of a listed span with the service name of its resource *)
WrittenContext(l) ==
    [Service |-> FieldString(l.service),
     Operation |-> FieldString(l.sp.name),
     Status |-> FieldString(l.sp.status),
     Tags |-> WrittenTags(l.sp),
     Logs |-> l.sp.events]

(* a SpanContext without its service *)
SpanPart(c) ==
    [Operation |-> c.Operation, Status |-> c.Status, Tags |-> c.Tags,
     Logs |-> c.Logs]

ContextBuilt == cout # <<>> /\ cout[1].has

Min(m, n) == IF m <= n THEN m ELSE n

(* C11: the children of the context are the first ChildLimit spans listed
   with the target as parent, in document order: min(n, ChildLimit) of
   them for n such spans, so exactly ChildLimit when n > ChildLimit; the
   context holds one target, at most one parent and at most ChildLimit
   children. *)
C11_ChildCap ==
    ContextBuilt =>
        \E kids \in {ListedChildren(cdoc, cid)} :
           /\ Len(cout[1].ChildSpans) = Min(Len(kids), ChildLimit)
           /\ Len(kids) > ChildLimit => Len(cout[1].ChildSpans) = ChildLimit
           /\ \A i \in 1..Len(cout[1].ChildSpans) :
                 SpanPart(cout[1].ChildSpans[i])
                    = SpanPart(WrittenContext(kids[i]))
           /\ Len(cout[1].ParentSpan) <= 1

(* reached: a target with three children, of which the first two are in the
   context and the third, another span, is not *)
C11_Witness ==
    /\ ContextBuilt
    /\ Len(ListedChildren(cdoc, cid)) = 3
    /\ Len(cout[1].ChildSpans) = 2
    /\ \A i \in 1..2 :
          SpanPart(cout[1].ChildSpans[i])
             # SpanPart(WrittenContext(ListedChildren(cdoc, cid)[3]))

(* C12: for a trace that parses, BuildExplainContext fails with "target
   span not found" and returns no context exactly when no span of the trace
   has the target id; otherwise it returns a context whose target is built
   from the last span listed with that id. *)
C12_TargetFound ==
    (cout # <<>> /\ cform = "plain") =>
        IF cid \in ListedIDs(cdoc)
        THEN /\ cout[1].has
             /\ cout[1].err = <<>>
             /\ cout[1].TargetSpan = WrittenContext(LastListed(cdoc, cid))
        ELSE /\ ~cout[1].has
             /\ cout[1].err = <<"target span not found">>

(* reached: the lookup of zz in a trace with spans a and b *)
C12_Witness ==
    /\ cout # <<>>
    /\ cform = "plain"
    /\ cid = "zz"
    /\ ListedIDs(cdoc) = {"a", "b"}
    /\ cout[1].err = <<"target span not found">>

(* C15: every SpanContext built from a span listed under a resource without
   a service.name attribute, as target, parent or child, has service "",
   and the context is built without error. *)
C15_MissingServiceName ==
    ContextBuilt =>
        \E target \in {LastListed(cdoc, cid)}, kids \in {ListedChildren(cdoc, cid)} :
           /\ target.service = ABSENT => cout[1].TargetSpan.Service = ""
           /\ \A i \in 1..Len(cout[1].ParentSpan) :
                 LastListed(cdoc, target.sp.parentSpanId).service = ABSENT
                    => cout[1].ParentSpan[i].Service = ""
           /\ \A i \in 1..Len(cout[1].ChildSpans) :
                 kids[i].service = ABSENT => cout[1].ChildSpans[i].Service = ""

(* C20: the context has a parent exactly when the target's parentSpanId is
   not empty and is the id of a span of the trace, and the parent is then
   built from the last span listed with that id; a parentSpanId that names
   no span leaves the parent out and is no error. *)
C20_ParentPresence ==
    ContextBuilt =>
        \E parentID \in {FieldString(LastListed(cdoc, cid).sp.parentSpanId)} :
           /\ cout[1].err = <<>>
           /\ IF parentID # "" /\ parentID \in ListedIDs(cdoc)
              THEN cout[1].ParentSpan
                      = << WrittenContext(LastListed(cdoc, parentID)) >>
              ELSE cout[1].ParentSpan = <<>>

(* reached: a target whose parentSpanId z names no span, in a context that
   has children *)
C20_Witness ==
    /\ ContextBuilt
    /\ FieldString(LastListed(cdoc, cid).sp.parentSpanId) = "z"
    /\ "z" \notin ListedIDs(cdoc)
    /\ cout[1].ParentSpan = <<>>
    /\ Len(cout[1].ChildSpans) > 0

(* the index BuildExplainContext builds of the document as written *)
WrittenIndex == BuildTraceIndex(ParseTrace(WriteDoc(cform, cdoc)).val)

(* C24: for a trace the validator accepts, each span c in
   childrenByParentID[p] is the span recorded as spansByID[c.spanId] and is
   listed under the resource whose service name is
   serviceBySpanID[c.spanId], and no children list holds the same spanId
   twice; every child SpanContext of the context carries the service of the
   resource its span is listed under, and the target is neither its own
   parent nor one of its own children. *)
C24_IndexConsistency ==
    (ContextBuilt /\ ValidateOTLPTraces(WriteDoc(cform, cdoc)) = NoError) =>
        \E idx \in {WrittenIndex}, target \in {LastListed(cdoc, cid)} :
           /\ \A p \in DOMAIN idx.Children :
              \E kids \in {ListedChildren(cdoc, p)} :
                 /\ Len(idx.Children[p]) = Len(kids)
                 /\ \A i \in 1..Len(kids) :
                       /\ idx.Children[p][i].SpanID = kids[i].sp.spanId
                       /\ idx.SpansByID[kids[i].sp.spanId] = idx.Children[p][i]
                       /\ idx.ServiceBySpan[kids[i].sp.spanId]
                             = FieldString(kids[i].service)
                       /\ \A j \in 1..Len(kids) :
                             j # i => kids[j].sp.spanId # kids[i].sp.spanId
           /\ \E kids \in {ListedChildren(cdoc, cid)} :
                 \A i \in 1..Len(cout[1].ChildSpans) :
                    /\ cout[1].ChildSpans[i].Service = FieldString(kids[i].service)
                    /\ kids[i] # target
           /\ cout[1].ParentSpan # <<>> =>
                 LastListed(cdoc, FieldString(target.sp.parentSpanId)) # target

-----------------------------------------------------------------------------
(* Claims about output validation.  They are stated on the answer as it was
   written (oin), for the forms in which the object reaches the decoder. *)

MemberOf(a, f) == CASE f = "root_cause" -> a.rc [] f = "impact" -> a.im
                    [] f = "suggested_action" -> a.sa
FieldNames == <<"root_cause", "impact", "suggested_action">>
NonStringKinds == {ISNULL, ISNUM, ISBOOL, ISARR, ISOBJ}
Validated == "validate" \in odone /\ oin.form \in ObjectForms
IsMalformedOutput(r) ==
    ~r.has /\ Len(r.err) >= 1 /\ r.err[1] = "response is not valid JSON"
MissingFieldError(f) ==
    CASE f = "root_cause" -> <<"root_cause field is missing or empty">>
      [] f = "impact" -> <<"impact field is missing or empty">>
      [] f = "suggested_action" -> <<"suggested_action field is missing or empty">>

(* C5: ParseResult fails with MalformedOutput whenever one of the three
   fields is present with a value that is not a string (object, array,
   number, null, bool). *)
C5_NonStringIsMalformed ==
    (Validated /\ \E i \in 1..3 : MemberOf(oin.a, FieldNames[i]) \in NonStringKinds)
        => IsMalformedOutput(oval)

(* C6 as stated: every output with an empty or absent field is rejected with
   a MissingField failure that names an empty field. *)
C6_EmptyIsMissingField ==
    (Validated /\ \E i \in 1..3 : MemberOf(oin.a, FieldNames[i]) \in {"", ABSENT})
        => /\ ~oval.has
           /\ \E i \in 1..3 : /\ MemberOf(oin.a, FieldNames[i]) \in {"", ABSENT}
                              /\ oval.err = MissingFieldError(FieldNames[i])

(* C6 amended: every output with an empty or absent field, or with a nested
   object in place of a field, is rejected and gives no result.  The failure
   is MalformedOutput when some field is an object, array, number or bool;
   otherwise it is MissingField naming the first of root_cause, impact,
   suggested_action that is empty, absent or null. *)
Blank(a, f) == MemberOf(a, f) \in {"", ABSENT, ISNULL}
TypeMismatch(a) ==
    \E i \in 1..3 : MemberOf(a, FieldNames[i]) \in {ISNUM, ISBOOL, ISARR, ISOBJ}
FirstBlank(a) == CHOOSE i \in 1..3 :
    Blank(a, FieldNames[i]) /\ \A j \in 1..(i - 1) : ~Blank(a, FieldNames[j])
C6_Rejection ==
    (Validated /\ \E i \in 1..3 :
                    MemberOf(oin.a, FieldNames[i]) \in {"", ABSENT, ISOBJ})
        => /\ ~oval.has
           /\ oval.result = ZeroExplainResult
           /\ IF TypeMismatch(oin.a) THEN IsMalformedOutput(oval)
              ELSE oval.err = MissingFieldError(FieldNames[FirstBlank(oin.a)])

(* reached: an empty root_cause next to a numeric impact, answered with
   MalformedOutput; and an absent impact alone, answered with MissingField *)
C6_Witness ==
    /\ Validated
    /\ oin.a.im = ABSENT /\ oin.a.rc = "cause" /\ oin.a.sa = "fix"
    /\ oval.err = <<"impact field is missing or empty">>

(* C7: output validation and ExplainTrace give either a result with three
   non-empty strings and no error, or no result and an error; never a
   result with an empty field, never a result together with an error. *)
Populated(r) ==
    /\ r.has /\ r.err = <<>>
    /\ r.result.RootCause # "" /\ r.result.Impact # ""
    /\ r.result.SuggestedAction # ""
Failed(r) == ~r.has /\ r.err # <<>> /\ r.result = ZeroExplainResult
C7_ResultOrError ==
    /\ "validate" \in odone => (Populated(oval) /\ ~Failed(oval))
                                 \/ (Failed(oval) /\ ~Populated(oval))
    /\ "explain" \in odone => (Populated(oexp) /\ ~Failed(oexp))
                                \/ (Failed(oexp) /\ ~Populated(oexp))

(* reached: a fenced answer accepted by both, and an answer with an empty
   impact rejected by both *)
C7_Witness ==
    /\ odone = {"validate", "explain"}
    /\ ocase = OkCase
    /\ \/ oin.form = "fenced" /\ Populated(oval) /\ Populated(oexp)
       \/ oin.a.im = "" /\ oin.a.rc = "cause" /\ oin.a.sa = "fix"
            /\ oin.form = "plain" /\ Failed(oval) /\ Failed(oexp)

(* C17: an explain request calls the model at most once, and only when the
   context was built: no call when the trace does not parse or the target
   span is not found; one call otherwise, and when that call fails or its
   output fails validation the request ends with that failure. *)
C17_OneModelCall ==
    "explain" \in odone =>
        /\ oexp.calls \in {0, 1}
        /\ IF ocase.trace # "sample" \/ ocase.span \notin SampleSpanIDs
           THEN /\ oexp.calls = 0
                /\ Failed(oexp)
                /\ Head(oexp.err) = "failed to build explain context"
           ELSE /\ oexp.calls = 1
                /\ ocase.llmErr =>
                      Failed(oexp) /\ oexp.err = <<"model call failed">>
                /\ (~ocase.llmErr /\ ~Populated(oexp)) =>
                      Failed(oexp) /\ Head(oexp.err) = "invalid LLM response format"

(* reached: the model answered text that is no JSON, it was called once and
   the request failed *)
C17_Witness ==
    /\ "explain" \in odone
    /\ ocase = OkCase
    /\ oin.form = "junk"
    /\ oexp.calls = 1
    /\ Failed(oexp)

(* the tokens of t at the positions S, in their order *)
Ordered(t, S) ==
    [k \in 1..Cardinality(S) |->
        t[CHOOSE i \in S : Cardinality({j \in S : j <= i}) = k]]

Lowest(S) == CHOOSE i \in S : \A j \in S : i <= j
Highest(S) == CHOOSE i \in S : \A j \in S : j <= i

(* what C18 says of a text t: of the positions that hold no marker, those
   from the first to the last that is not white space; of these, those from
   the first "{" to the last "}" when there is such a pair in this order *)
ExpectedExtract(t) ==
    LET keep == {i \in 1..Len(t) : t[i].c \notin {"fencejson", "fence"}}
        solid == {i \in keep : t[i].c # "ws"}
        body == {i \in keep : Lowest(solid) <= i /\ i <= Highest(solid)}
        opens == {i \in body : t[i].c = "{"}
        closes == {i \in body : t[i].c = "}"}
    IN IF solid = {} THEN <<>>
       ELSE IF opens = {} \/ closes = {} \/ Highest(closes) < Lowest(opens)
       THEN Ordered(t, body)
       ELSE Ordered(t, {i \in body : Lowest(opens) <= i /\ i <= Highest(closes)})

(* C18: ExtractJSON removes every marker, trims white space and returns the
   text from the first "{" to the last "}", or the trimmed text when there
   is no such pair; a valid three-field object inside a fence validates to
   the same result as the bare object. *)
C18_ExtractJSON ==
    oin.form # "" =>
        /\ ExtractJSON(otext) = ExpectedExtract(otext)
        /\ ("validate" \in odone /\ oin.form = "fenced") =>
              /\ oval = ParseResult(WriteAnswer("plain", oin.a))
              /\ oin.a = GoodAnswer =>
                    oval = Return([RootCause |-> "cause", Impact |-> "effect",
                                   SuggestedAction |-> "fix"])

(* reached: a fenced valid answer that was accepted, its text holding both
   markers *)
C18_Witness ==
    /\ "validate" \in odone
    /\ oin.form = "fenced"
    /\ oin.a = GoodAnswer
    /\ Populated(oval)
    /\ \E i, j \in 1..Len(otext) :
          otext[i].c = "fencejson" /\ otext[j].c = "fence"
    /\ ExtractJSON(otext) = Encode(AnswerJSON(oin.a))

Init == InitServer

Next == NextServer

Spec == Init /\ [][Next]_vars

=============================================================================
